---- MODULE Spec2Model ----
(***************************************************************************)
(* Caching layer of the content generator backend: the CacheService        *)
(* gateway (Redis client with an in-memory fallback), the ContentCache     *)
(* helpers built on it, and the content route handlers that invalidate it. *)
(*                                                                         *)
(* Time is counted in ticks of the fallback sweep interval (5 minutes):    *)
(* Date.now() is now * SWEEP_INTERVAL_MS.                                  *)
(***************************************************************************)
EXTENDS Integers, Sequences, FiniteSets, TLC

\* ------------------------------------------------------------- bounds
\* Last tick of the clock (13 ticks = 65 minutes: one sweep past the hour).
MaxNow == 14
\* Committed writes to one user's content rows that the model follows.
MaxWrites == 1

\* -------------------------------------------------- program constants
maxRetries == 3
SWEEP_INTERVAL_MS == 300000
SWEEP_MAX_AGE_MS == 3600000
MEMORY_MAX_AGE_MS == 3600000
DEFAULT_TTL == 3600
STATS_TTL == 1800
ANALYTICS_TTL == 1800
PERFORMANCE_TTL == 3600

\* ---------------------------------------------------------- KeyCodec
UserIds == {1, 2}
Periods == {"week"}
\* One date range, as Date.prototype.toISOString() prints its two ends.
RangeStart == "2025-01-01T00:00:00.000Z"
RangeEnd == "2025-01-08T00:00:00.000Z"
ContentParams ==
  [topic |-> "AI", keyword |-> "ml", contentType |-> "blog_post",
   platformTarget |-> "Twitter"]

\* JSON.stringify of the parameter objects the ContentCache helpers build.
StatsParamString(userId, period) ==
  "{\"userId\":" \o ToString(userId) \o ",\"period\":\"" \o period \o "\"}"

AnalyticsParamString(userId, startIso, endIso) ==
  "{\"userId\":" \o ToString(userId) \o ",\"startDate\":\"" \o startIso
     \o "\",\"endDate\":\"" \o endIso \o "\"}"

PerformanceParamString(userId) ==
  "{\"userId\":" \o ToString(userId) \o "}"

ContentParamString(p) ==
  "{\"topic\":\"" \o p.topic \o "\",\"keyword\":\"" \o p.keyword
     \o "\",\"contentType\":\"" \o p.contentType
     \o "\",\"platformTarget\":\"" \o p.platformTarget \o "\"}"

\* crypto.createHash('md5').update(s).digest('hex'), tabulated for the
\* parameter strings of the model's domain (the digests are the real ones).
MD5Hex(s) ==
  CASE s = "{\"userId\":1,\"period\":\"week\"}"
        -> <<"b","4","9","7","d","a","2","e","0","5","1","8","a","b","3","d","5","1","7","e","7","3","2","8","7","a","3","e","d","2","d","8">>
    [] s = "{\"userId\":1,\"startDate\":\"2025-01-01T00:00:00.000Z\",\"endDate\":\"2025-01-08T00:00:00.000Z\"}"
        -> <<"8","e","1","2","d","c","9","9","1","1","2","c","4","e","0","2","a","5","6","5","f","0","5","4","e","c","8","b","5","5","5","1">>
    [] s = "{\"userId\":1}"
        -> <<"d","5","6","8","d","1","8","a","2","1","b","5","4","9","e","d","6","3","0","a","e","e","0","d","5","b","c","3","f","6","a","f">>
    [] s = "{\"userId\":2,\"period\":\"week\"}"
        -> <<"8","7","b","a","f","2","d","7","2","a","2","c","c","4","6","1","2","f","4","a","2","6","9","c","2","7","e","a","3","7","5","6">>
    [] s = "{\"userId\":2,\"startDate\":\"2025-01-01T00:00:00.000Z\",\"endDate\":\"2025-01-08T00:00:00.000Z\"}"
        -> <<"b","6","4","a","2","9","5","1","8","3","2","4","d","0","b","2","c","0","9","5","c","1","8","a","2","3","d","a","e","9","4","d">>
    [] s = "{\"userId\":2}"
        -> <<"3","b","b","1","6","3","e","9","0","e","1","4","1","d","6","4","f","a","b","1","9","9","5","d","0","4","f","1","8","3","5","9">>
    [] s = "{\"topic\":\"AI\",\"keyword\":\"ml\",\"contentType\":\"blog_post\",\"platformTarget\":\"Twitter\"}"
        -> <<"7","f","1","2","1","d","f","b","a","8","8","3","d","1","c","2","2","a","5","c","8","5","0","6","e","0","4","8","f","1","f","2">>
    [] s = "{\"userId\":1,\"period\":\"month\"}"
        -> <<"6","1","c","1","8","2","7","6","f","d","9","9","0","a","7","d","d","f","e","6","0","2","1","c","7","b","b","c","4","6","5","0">>
    [] s = "{\"userId\":1,\"startDate\":\"2024-12-25T00:00:00.000Z\",\"endDate\":\"2025-01-01T00:00:00.000Z\"}"
        -> <<"d","1","c","a","9","b","b","5","8","f","1","d","4","8","8","2","a","8","9","d","f","1","d","2","9","0","a","c","d","b","b","3">>
    [] s = "{\"userId\":2,\"period\":\"month\"}"
        -> <<"5","8","d","3","a","f","8","f","6","0","4","5","9","8","5","6","d","8","2","c","2","8","6","6","3","e","a","6","3","f","f","b">>
    [] s = "{\"userId\":2,\"startDate\":\"2024-12-25T00:00:00.000Z\",\"endDate\":\"2025-01-01T00:00:00.000Z\"}"
        -> <<"f","5","d","7","4","c","7","b","b","9","e","6","9","7","a","7","2","b","3","4","6","d","6","d","a","8","7","1","d","0","0","2">>
    [] s = "{\"topic\":\"AI\",\"keyword\":\"ml\",\"contentType\":\"social_caption\",\"platformTarget\":\"LinkedIn\"}"
        -> <<"e","a","9","7","a","1","6","9","0","1","4","7","c","9","a","7","3","4","d","4","f","4","2","4","7","8","3","b","6","b","3","e">>

\* The characters of the four namespace prefixes.
PrefixChars(prefix) ==
  CASE prefix = "content" -> <<"c","o","n","t","e","n","t">>
    [] prefix = "stats" -> <<"s","t","a","t","s">>
    [] prefix = "analytics" -> <<"a","n","a","l","y","t","i","c","s">>
    [] prefix = "performance" -> <<"p","e","r","f","o","r","m","a","n","c","e">>

\* generateKey(prefix, params): `${prefix}:${hash}`, as its characters.
generateKey(prefix, paramString) ==
  PrefixChars(prefix) \o <<":">> \o MD5Hex(paramString)

ContentKey == generateKey("content", ContentParamString(ContentParams))
StatsKey(userId, period) == generateKey("stats", StatsParamString(userId, period))
AnalyticsKey(userId) ==
  generateKey("analytics", AnalyticsParamString(userId, RangeStart, RangeEnd))
PerformanceKey(userId) == generateKey("performance", PerformanceParamString(userId))

\* Every key the three per-user namespaces hold for userId.
UserKeys(userId) ==
  {StatsKey(userId, p) : p \in Periods} \cup {AnalyticsKey(userId), PerformanceKey(userId)}

Keys == {ContentKey} \cup UNION {UserKeys(u) : u \in UserIds}

\* String(userId) inside a template literal: the decimal digits.
DigitChar(d) == <<"0","1","2","3","4","5","6","7","8","9">>[d + 1]

RECURSIVE Digits(_)
Digits(n) ==
  IF n < 10 THEN <<DigitChar(n)>> ELSE Digits(n \div 10) \o <<DigitChar(n % 10)>>

\* `${prefix}:*${userId}*`, the pattern invalidateUserCache passes to clear.
UserPattern(prefix, userId) ==
  PrefixChars(prefix) \o <<":", "*">> \o Digits(userId) \o <<"*">>

\* Redis KEYS glob matching, for patterns of literals, '?' and '*'.
RECURSIVE GlobMatch(_, _)
GlobMatch(pattern, str) ==
  IF pattern = <<>> THEN str = <<>>
  ELSE IF Head(pattern) = "*"
       THEN \/ GlobMatch(Tail(pattern), str)
            \/ (str # <<>> /\ GlobMatch(pattern, Tail(str)))
  ELSE IF str = <<>> THEN FALSE
  ELSE /\ (Head(pattern) = "?" \/ Head(pattern) = Head(str))
       /\ GlobMatch(Tail(pattern), Tail(str))

\* ------------------------------------------------------------- state
VARIABLES
  client,           \* this.client: "null" or "client"
  sock,             \* the Redis client object's socket: "none", "connecting",
                    \*   "connected", "ready" or "closed"
  isConnected,      \* this.isConnected
  retryAttempts,    \* this.retryAttempts
  connectPc,        \* connect(): "idle", "pending" (at its await), "resolved", "failed"
  memInit,          \* initializeInMemoryCache() has run (the two maps exist)
  memoryCache,      \* this.memoryCache: key -> value
  cacheTimestamps,  \* this.cacheTimestamps: key -> Date.now() of the set
  nextSweep,        \* tick at which the setInterval callback fires next
  redis,            \* the Redis server's keyspace: key -> [json, exp]
  redisUp,          \* whether the Redis server answers
  now,              \* the clock, in ticks
  exited,           \* process.exit() was reached
  ret,              \* the latest CacheService call and what it returned
  lastSet,          \* per key, the latest set() the caller made and not removed since
  db,               \* content table: per user, how many writes to its rows committed
  req,              \* the HTTP request being handled, or the last one answered
  calc              \* the arguments and results of the pure functions under study

gatewayVars ==
  <<client, sock, isConnected, retryAttempts, connectPc, memInit, memoryCache,
    cacheTimestamps, nextSweep, redis, redisUp, now, exited, ret, lastSet>>

routeVars == <<db, req, calc>>

vars == <<gatewayVars, routeVars>>

NowMs == now * SWEEP_INTERVAL_MS
NowSec == NowMs \div 1000

\* Cached payloads are JSON objects; a payload is named by a number.
Payloads == 0..MaxWrites
JSONStringify(v) == <<"json", v>>
JSONParse(s) == s[2]

Null == [isNull |-> TRUE, val |-> 0]
Some(v) == [isNull |-> FALSE, val |-> v]

NoKeys == {}
EmptyMap == [x \in {} |-> 0]
MapPut(m, k, e) == (k :> e) @@ m
MapRemove(m, ks) == [x \in (DOMAIN m) \ ks |-> m[x]]

\* What a caller knows of a key: "none", or its latest set(): "live" within
\* the TTL it gave, "expired" after it; where that set was routed, and
\* whether the client had been given up by then.
NeverSet ==
  [state |-> "none", val |-> 0, at |-> 0, ttl |-> 0, routed |-> "none", gaveUp |-> FALSE]
NoCall ==
  [op |-> "none", key |-> <<>>, isNull |-> TRUE, val |-> 0, raised |-> FALSE,
   threw |-> FALSE, routed |-> "none", pending |-> FALSE, keys |-> NoKeys,
   gaveUp |-> FALSE, exp |-> NeverSet]

\* A request: the route, the user, where its handler stands, whether its
\* content write committed, whether invalidateUserCache has returned, the
\* payload it computed or was served, and the HTTP status it answered with;
\* ns counts the namespaces invalidateUserCache has come to.
NoRequest ==
  [kind |-> "none", user |-> 0, pc |-> "idle", ns |-> 0, wrote |-> FALSE,
   invalidated |-> FALSE, result |-> 0, status |-> 0]

\* A route handler is between two of its awaits.
Busy == req.pc \notin {"idle", "done"}

\* No pure function is under study.
NoCalc == [fn |-> "none"]

\* constructor(); an empty content table; no request yet.
Constructed ==
  /\ client = "null"
  /\ sock = "none"
  /\ isConnected = FALSE
  /\ retryAttempts = 0
  /\ connectPc = "idle"
  /\ memInit = FALSE
  /\ memoryCache = EmptyMap
  /\ cacheTimestamps = EmptyMap
  /\ nextSweep = 0
  /\ redis = EmptyMap
  /\ redisUp \in BOOLEAN
  /\ now = 0
  /\ exited = FALSE
  /\ ret = NoCall
  /\ lastSet = EmptyMap
  /\ db = [u \in UserIds |-> 0]
  /\ req = NoRequest

Init == Constructed /\ calc = NoCalc

\* app.listen() follows initializeCache() in startServer: requests arrive
\* once connect() has reached its await, and until the process exits.
Serving == connectPc # "idle" /\ ~exited

\* ------------------------------------------------------- Redis server
\* An entry written by SETEX answers until its expiry time.
RedisLive(k) == k \in DOMAIN redis /\ NowSec < redis[k].exp
RedisKeys(pattern) == {k \in DOMAIN redis : RedisLive(k) /\ GlobMatch(pattern, k)}

\* ----------------------------------------------------- CacheService
\* A gateway that looks at isConnected alone.
ConnectedFlagOnly == isConnected

\* if (this.isConnected && this.client)
UseRedis == isConnected /\ client # "null"

\* A method whose catch block rethrows what the backend raised.
Rethrow(raised) == raised

\* catch (error) { console.warn(...) }: what leaves a method whose body raised.
CatchAndWarn(raised) == FALSE

LastSetOf(k) == IF k \in DOMAIN lastSet THEN lastSet[k] ELSE NeverSet

\* The error handler has set this.client to null.
GaveUp == connectPc # "idle" /\ client = "null"

\* get(key): the fallback branch's answer.
MemoryFresh(k) ==
  /\ memInit
  /\ k \in DOMAIN memoryCache
  /\ k \in DOMAIN cacheTimestamps
  /\ NowMs - cacheTimestamps[k] < MEMORY_MAX_AGE_MS

MemoryStale(k) ==
  /\ memInit
  /\ k \in DOMAIN memoryCache
  /\ k \in DOMAIN cacheTimestamps
  /\ ~(NowMs - cacheTimestamps[k] < MEMORY_MAX_AGE_MS)

\* get(key): what it returns when nothing is thrown.
Lookup(k) ==
  IF UseRedis
  THEN IF redisUp /\ RedisLive(k) THEN Some(JSONParse(redis[k].json)) ELSE Null
  ELSE IF MemoryFresh(k) THEN Some(memoryCache[k]) ELSE Null

\* A lazy eviction that forgets the timestamp map.
TimestampKept(k) == cacheTimestamps

\* get(key), else branch: this.cacheTimestamps.delete(key)
TimestampDeleted(k) == MapRemove(cacheTimestamps, {k})

\* get(key)
SvcGet(k) ==
  LET viaRedis == UseRedis
      raised == viaRedis /\ ~redisUp
      res == Lookup(k)
      threw == raised /\ CatchAndWarn(raised)
  IN /\ ret' = [op |-> "get", key |-> k,
                isNull |-> (threw \/ res.isNull), val |-> IF threw THEN 0 ELSE res.val,
                raised |-> raised, threw |-> threw,
                routed |-> IF viaRedis THEN "redis" ELSE "memory",
                pending |-> FALSE, keys |-> NoKeys,
                gaveUp |-> GaveUp, exp |-> LastSetOf(k)]
     /\ IF ~viaRedis /\ MemoryStale(k)
        THEN /\ memoryCache' = MapRemove(memoryCache, {k})
             /\ cacheTimestamps' = TimestampDeleted(k)
        ELSE UNCHANGED <<memoryCache, cacheTimestamps>>
     /\ UNCHANGED redis

\* set(key, value, ttlSeconds)
SvcSet(k, v, ttlSeconds) ==
  LET viaRedis == UseRedis
      raised == viaRedis /\ ~redisUp
      threw == raised /\ CatchAndWarn(raised)
  IN /\ ret' = [NoCall EXCEPT !.op = "set", !.key = k, !.raised = raised, !.threw = threw,
                              !.routed = IF viaRedis THEN "redis" ELSE "memory",
                              !.gaveUp = GaveUp]
     /\ IF viaRedis
        THEN /\ redis' = IF raised THEN redis
                         ELSE MapPut(redis, k, [json |-> JSONStringify(v),
                                                exp |-> NowSec + ttlSeconds])
             /\ UNCHANGED <<memoryCache, cacheTimestamps>>
        ELSE /\ IF memInit
                THEN /\ memoryCache' = MapPut(memoryCache, k, v)
                     /\ cacheTimestamps' = MapPut(cacheTimestamps, k, NowMs)
                ELSE UNCHANGED <<memoryCache, cacheTimestamps>>
             /\ UNCHANGED redis

\* del(key)
SvcDel(k) ==
  LET viaRedis == UseRedis
      raised == viaRedis /\ ~redisUp
      threw == raised /\ CatchAndWarn(raised)
  IN /\ ret' = [NoCall EXCEPT !.op = "del", !.key = k, !.raised = raised, !.threw = threw,
                              !.routed = IF viaRedis THEN "redis" ELSE "memory",
                              !.gaveUp = GaveUp]
     /\ IF viaRedis
        THEN /\ redis' = IF raised THEN redis ELSE MapRemove(redis, {k})
             /\ UNCHANGED <<memoryCache, cacheTimestamps>>
        ELSE /\ IF memInit
                THEN /\ memoryCache' = MapRemove(memoryCache, {k})
                     /\ cacheTimestamps' = MapRemove(cacheTimestamps, {k})
                ELSE UNCHANGED <<memoryCache, cacheTimestamps>>
             /\ UNCHANGED redis

\* clear(pattern), up to its first await: the fallback branch empties both
\* maps at once; the Redis branch asks for the matching keys and waits.
SvcClearBegin(pattern) ==
  LET viaRedis == UseRedis
      raised == viaRedis /\ ~redisUp
      threw == raised /\ CatchAndWarn(raised)
  IN /\ ret' = [NoCall EXCEPT !.op = "clear", !.key = pattern, !.raised = raised,
                              !.threw = threw,
                              !.routed = IF viaRedis THEN "redis" ELSE "memory",
                              !.gaveUp = GaveUp,
                              !.pending = viaRedis /\ ~raised,
                              !.keys = IF viaRedis /\ ~raised THEN RedisKeys(pattern)
                                       ELSE NoKeys]
     /\ IF ~viaRedis /\ memInit
        THEN /\ memoryCache' = EmptyMap
             /\ cacheTimestamps' = EmptyMap
        ELSE UNCHANGED <<memoryCache, cacheTimestamps>>
     /\ UNCHANGED redis

\* clear(pattern), after the keys came back: if (keys.length > 0)
\* await this.client.del(keys). this.client is read again here, and is null
\* once the error handler has given the client up.
SvcClearFinish ==
  LET some == ret.keys # NoKeys
      raised == some /\ (client = "null" \/ ~redisUp)
      threw == raised /\ CatchAndWarn(raised)
  IN /\ ret' = [ret EXCEPT !.pending = FALSE, !.raised = raised, !.threw = threw]
     /\ redis' = IF some /\ ~raised THEN MapRemove(redis, ret.keys) ELSE redis
     /\ UNCHANGED <<memoryCache, cacheTimestamps>>

\* --------------------------------------------- connection lifecycle
\* startServer: initializeCache() runs connect() up to its await (the client
\* is created, the four handlers are registered, the connection is started).
Connect ==
  /\ connectPc = "idle"
  /\ ~exited
  /\ client' = "client"
  /\ sock' = "connecting"
  /\ connectPc' = "pending"
  /\ UNCHANGED <<isConnected, retryAttempts, memInit, memoryCache, cacheTimestamps,
                 nextSweep, redis, redisUp, now, exited, ret, lastSet, routeVars>>

\* An error handler that counts every error, with no cap.
CountEveryError(attempts) == attempts + 1

\* this.client.on('error', ...): the counter after the handler's first if.
CountError(attempts) == IF attempts < maxRetries THEN attempts + 1 ELSE attempts

\* this.client.on('error', ...): the client after the handler's second if.
GiveUp(attempts, c) == IF attempts >= maxRetries THEN "null" ELSE c

\* An 'error' event: the socket failed; the library retries or stops.
ErrorEvent ==
  /\ sock \in {"connecting", "connected", "ready"}
  /\ ~redisUp
  /\ ~exited
  /\ retryAttempts' = CountError(retryAttempts)
  /\ isConnected' = FALSE
  /\ client' = GiveUp(retryAttempts', client)
  /\ \E s \in {"connecting", "closed"} : sock' = s
  /\ UNCHANGED <<connectPc, memInit, memoryCache, cacheTimestamps, nextSweep, redis,
                 redisUp, now, exited, ret, lastSet, routeVars>>

\* this.client.on('connect', ...)
ConnectEvent ==
  /\ sock = "connecting"
  /\ redisUp
  /\ ~exited
  /\ sock' = "connected"
  /\ isConnected' = TRUE
  /\ retryAttempts' = 0
  /\ UNCHANGED <<client, connectPc, memInit, memoryCache, cacheTimestamps, nextSweep,
                 redis, redisUp, now, exited, ret, lastSet, routeVars>>

\* this.client.on('ready', ...); a connect() still waiting resolves with it.
ReadyEvent ==
  /\ sock = "connected"
  /\ redisUp
  /\ ~exited
  /\ sock' = "ready"
  /\ isConnected' = TRUE
  /\ connectPc' = IF connectPc = "pending" THEN "resolved" ELSE connectPc
  /\ UNCHANGED <<client, retryAttempts, memInit, memoryCache, cacheTimestamps,
                 nextSweep, redis, redisUp, now, exited, ret, lastSet, routeVars>>

\* this.client.on('end', ...): the connection was closed for good.
EndEvent ==
  /\ sock \in {"connecting", "connected", "ready"}
  /\ ~exited
  /\ sock' = "closed"
  /\ isConnected' = FALSE
  /\ UNCHANGED <<client, retryAttempts, connectPc, memInit, memoryCache,
                 cacheTimestamps, nextSweep, redis, redisUp, now, exited, ret, lastSet, routeVars>>

\* A catch block that only logs: no fallback store is made.
CatchWithoutFallback ==
  /\ isConnected' = FALSE
  /\ connectPc' = "failed"
  /\ UNCHANGED <<memInit, memoryCache, cacheTimestamps, nextSweep>>

\* connect()'s catch block: isConnected = false; initializeInMemoryCache(),
\* which makes two new maps and starts the sweep timer.
ConnectCatch ==
  /\ isConnected' = FALSE
  /\ memInit' = TRUE
  /\ memoryCache' = EmptyMap
  /\ cacheTimestamps' = EmptyMap
  /\ nextSweep' = now + 1
  /\ connectPc' = "failed"

\* The 5 s timeout promise wins the race; the client goes on trying.
ConnectTimeout ==
  /\ connectPc = "pending"
  /\ ~exited
  /\ ConnectCatch
  /\ UNCHANGED <<client, sock, retryAttempts, redis, redisUp, now, exited, ret, lastSet, routeVars>>

\* client.connect() rejects: the library gave the connection up.
ConnectReject ==
  /\ connectPc = "pending"
  /\ sock = "connecting"
  /\ ~redisUp
  /\ ~exited
  /\ ConnectCatch
  /\ sock' = "closed"
  /\ UNCHANGED <<client, retryAttempts, redis, redisUp, now, exited, ret, lastSet, routeVars>>

RedisDown ==
  /\ redisUp
  /\ ~exited
  /\ redisUp' = FALSE
  /\ UNCHANGED <<client, sock, isConnected, retryAttempts, connectPc, memInit,
                 memoryCache, cacheTimestamps, nextSweep, redis, now, exited, ret, lastSet, routeVars>>

RedisUp ==
  /\ ~redisUp
  /\ ~exited
  /\ redisUp' = TRUE
  /\ UNCHANGED <<client, sock, isConnected, retryAttempts, connectPc, memInit,
                 memoryCache, cacheTimestamps, nextSweep, redis, now, exited, ret, lastSet, routeVars>>

\* SIGINT / SIGTERM: shutdownCache() runs disconnect(), then process.exit(0).
\* client.disconnect() raises on a closed client and emits 'end' otherwise.
Shutdown ==
  LET raised == client # "null" /\ sock = "closed"
      closes == client # "null" /\ sock # "closed"
  IN /\ Serving
     /\ ~ret.pending
     /\ ret' = [NoCall EXCEPT !.op = "disconnect", !.raised = raised,
                              !.threw = raised /\ CatchAndWarn(raised),
                              !.routed = IF client # "null" THEN "redis" ELSE "none"]
     /\ sock' = IF closes THEN "closed" ELSE sock
     /\ isConnected' = IF closes THEN FALSE ELSE isConnected
     /\ exited' = TRUE
     /\ UNCHANGED <<client, retryAttempts, connectPc, memInit, memoryCache,
                    cacheTimestamps, nextSweep, redis, redisUp, now, lastSet, routeVars>>

\* --------------------------------------------------------------- time
SweepDue == memInit /\ now >= nextSweep

\* A sweep that removes nothing.
NothingSwept == {}

\* The setInterval callback of initializeInMemoryCache.
SweptKeys == {k \in DOMAIN cacheTimestamps : NowMs - cacheTimestamps[k] > SWEEP_MAX_AGE_MS}

Sweep ==
  /\ SweepDue
  /\ ~exited
  /\ memoryCache' = MapRemove(memoryCache, SweptKeys)
  /\ cacheTimestamps' = MapRemove(cacheTimestamps, SweptKeys)
  /\ nextSweep' = nextSweep + 1
  /\ UNCHANGED <<client, sock, isConnected, retryAttempts, connectPc, memInit, redis,
                 redisUp, now, exited, ret, lastSet, routeVars>>

\* Five minutes pass. connect()'s 5 s race and a Redis round trip end within
\* the tick, and a due sweep runs before the next one is due. Redis drops the
\* entries whose expiry time has come.
Advance ==
  /\ now < MaxNow
  /\ Serving
  /\ connectPc # "pending"
  /\ ~SweepDue
  /\ ~ret.pending
  /\ now' = now + 1
  /\ redis' = MapRemove(redis, {k \in DOMAIN redis :
                                  redis[k].exp <= (now + 1) * (SWEEP_INTERVAL_MS \div 1000)})
  /\ lastSet' = [k \in DOMAIN lastSet |->
                   IF lastSet[k].state = "live" /\
                      ~((now + 1 - lastSet[k].at) * (SWEEP_INTERVAL_MS \div 1000) < lastSet[k].ttl)
                   THEN [lastSet[k] EXCEPT !.state = "expired", !.val = 0, !.at = 0, !.ttl = 0]
                   ELSE lastSet[k]]
  /\ UNCHANGED <<client, sock, isConnected, retryAttempts, connectPc, memInit,
                 memoryCache, cacheTimestamps, nextSweep, redisUp, exited, ret, routeVars>>

\* ------------------------------------------- calls on the gateway
GatewayKeys == {PerformanceKey(1)}
GatewayTtls == {1, ANALYTICS_TTL, DEFAULT_TTL}
GatewayPatterns == {<<"*">>}

lifecycleVars == <<client, sock, isConnected, retryAttempts, connectPc, memInit,
                   nextSweep, redisUp, now, exited>>

\* A caller outside the route handlers, one call at a time.
CanCall == Serving /\ ~ret.pending /\ ~Busy

Get(k) ==
  /\ CanCall
  /\ SvcGet(k)
  /\ UNCHANGED <<lifecycleVars, lastSet, routeVars>>

Set(k, v, ttlSeconds) ==
  /\ CanCall
  /\ SvcSet(k, v, ttlSeconds)
  /\ lastSet' = MapPut(lastSet, k,
                  [state |-> "live", val |-> v, at |-> now, ttl |-> ttlSeconds,
                   routed |-> IF UseRedis THEN "redis" ELSE "memory",
                   gaveUp |-> GaveUp])
  /\ UNCHANGED <<lifecycleVars, routeVars>>

Del(k) ==
  /\ CanCall
  /\ SvcDel(k)
  /\ lastSet' = MapRemove(lastSet, {k})
  /\ UNCHANGED <<lifecycleVars, routeVars>>

Clear(pattern) ==
  /\ CanCall
  /\ SvcClearBegin(pattern)
  /\ lastSet' = EmptyMap
  /\ UNCHANGED <<lifecycleVars, routeVars>>

ClearFinish ==
  /\ ~exited
  /\ ~Busy
  /\ ret.pending
  /\ ret.op = "clear"
  /\ SvcClearFinish
  /\ UNCHANGED <<lifecycleVars, lastSet, routeVars>>

GatewayCall ==
  \/ \E k \in GatewayKeys : Get(k)
  \/ \E k \in GatewayKeys, ttlSeconds \in GatewayTtls : Set(k, 1, ttlSeconds)
  \/ \E k \in GatewayKeys : Del(k)
  \/ \E pattern \in GatewayPatterns : Clear(pattern)
  \/ ClearFinish

Lifecycle ==
  \/ Connect
  \/ ErrorEvent
  \/ ConnectEvent
  \/ ReadyEvent
  \/ EndEvent
  \/ ConnectTimeout
  \/ ConnectReject
  \/ RedisDown
  \/ RedisUp
  \/ Shutdown

NextConn == Lifecycle \/ GatewayCall
SpecConn == Init /\ [][NextConn]_vars

\* Redis never answers: no connection attempt and no operation succeeds.
InitDown == Init /\ ~redisUp
NextDown ==
  \/ Connect
  \/ ErrorEvent
  \/ EndEvent
  \/ ConnectTimeout
  \/ ConnectReject
  \/ Shutdown
  \/ \E k \in GatewayKeys : Get(k)
  \/ \E k \in GatewayKeys, ttlSeconds \in GatewayTtls : Set(k, 1, ttlSeconds)
  \/ \E k \in GatewayKeys : Del(k)
  \/ \E pattern \in GatewayPatterns : Clear(pattern)
SpecDown == InitDown /\ [][NextDown]_vars

\* connect() has returned, either way.
Started == connectPc \in {"resolved", "failed"}

StartedGet(k) == Started /\ Get(k)
StartedSet(k, v, ttlSeconds) == Started /\ Set(k, v, ttlSeconds)
StartedDel(k) == Started /\ Del(k)
StartedClear(pattern) == Started /\ Clear(pattern)

\* Start-up in either environment, then calls while time passes.
NextTtl ==
  \/ Connect
  \/ ConnectEvent
  \/ ReadyEvent
  \/ ConnectTimeout
  \/ \E k \in GatewayKeys : StartedGet(k)
  \/ \E k \in GatewayKeys, ttlSeconds \in GatewayTtls : StartedSet(k, 1, ttlSeconds)
  \/ \E k \in GatewayKeys : StartedDel(k)
  \/ \E pattern \in GatewayPatterns : StartedClear(pattern)
  \/ ClearFinish
  \/ Advance
  \/ Sweep
SpecTtl == Init /\ [][NextTtl]_vars

\* ------------------------------------------------------ ContentCache
\* A caller of the ContentCache helpers, once connect() has returned.
CacheCall == CanCall /\ Started

getCachedContent(p) ==
  /\ CacheCall
  /\ SvcGet(generateKey("content", ContentParamString(p)))
  /\ UNCHANGED <<lifecycleVars, lastSet, routeVars>>

setCachedContent(p, generated) ==
  /\ CacheCall
  /\ SvcSet(generateKey("content", ContentParamString(p)), generated, DEFAULT_TTL)
  /\ UNCHANGED <<lifecycleVars, lastSet, routeVars>>

getCachedStats(userId, period) ==
  /\ CacheCall
  /\ SvcGet(StatsKey(userId, period))
  /\ UNCHANGED <<lifecycleVars, lastSet, routeVars>>

setCachedStats(userId, period, stats) ==
  /\ CacheCall
  /\ SvcSet(StatsKey(userId, period), stats, STATS_TTL)
  /\ UNCHANGED <<lifecycleVars, lastSet, routeVars>>

getCachedAnalytics(userId) ==
  /\ CacheCall
  /\ SvcGet(AnalyticsKey(userId))
  /\ UNCHANGED <<lifecycleVars, lastSet, routeVars>>

setCachedAnalytics(userId, analytics) ==
  /\ CacheCall
  /\ SvcSet(AnalyticsKey(userId), analytics, ANALYTICS_TTL)
  /\ UNCHANGED <<lifecycleVars, lastSet, routeVars>>

getCachedPerformance(userId) ==
  /\ CacheCall
  /\ SvcGet(PerformanceKey(userId))
  /\ UNCHANGED <<lifecycleVars, lastSet, routeVars>>

setCachedPerformance(userId, performance) ==
  /\ CacheCall
  /\ SvcSet(PerformanceKey(userId), performance, PERFORMANCE_TTL)
  /\ UNCHANGED <<lifecycleVars, lastSet, routeVars>>

\* invalidateUserCache clears these namespaces, in this order.
InvalidatedPrefixes == <<"stats", "analytics", "performance">>

Respond(r, status) == [r EXCEPT !.pc = "done", !.status = status]

\* The status a handler answers with when nothing failed (none when the
\* caller is not a handler).
SuccessStatus(kind) ==
  CASE kind \in {"generate", "templateGenerate"} -> 201
    [] kind = "invalidate" -> 0
    [] OTHER -> 200

\* invalidateUserCache after one of its clear() calls has returned: the next
\* namespace, or back in the caller, which answers.
AfterClear(r) ==
  IF r.ns < Len(InvalidatedPrefixes)
  THEN [r EXCEPT !.pc = "clear", !.ns = r.ns + 1]
  ELSE [Respond(r, SuccessStatus(r.kind)) EXCEPT !.invalidated = TRUE]

\* invalidateUserCache(userId), called on its own.
invalidateUserCache(userId) ==
  /\ CacheCall
  /\ req' = [NoRequest EXCEPT !.kind = "invalidate", !.user = userId,
                              !.pc = "clear", !.ns = 1]
  /\ UNCHANGED <<gatewayVars, db, calc>>

\* await cacheService.clear(`${prefix}:*${userId}*`), up to clear's await.
ClearNamespace ==
  /\ req.pc = "clear"
  /\ ~exited
  /\ SvcClearBegin(UserPattern(InvalidatedPrefixes[req.ns], req.user))
  /\ req' = IF ret'.pending THEN [req EXCEPT !.pc = "clearWait"] ELSE AfterClear(req)
  /\ UNCHANGED <<lifecycleVars, lastSet, db, calc>>

\* the rest of that clear(), once Redis has listed the keys.
ClearNamespaceFinish ==
  /\ req.pc = "clearWait"
  /\ ~exited
  /\ SvcClearFinish
  /\ req' = AfterClear(req)
  /\ UNCHANGED <<lifecycleVars, lastSet, db, calc>>

\* Start-up decides the backend: Redis connects and is ready before connect()'s
\* timeout, or it is not and no later event brings it back.
ConnectInTime == connectPc = "pending" /\ ConnectEvent
ReadyInTime == connectPc = "pending" /\ ReadyEvent

\* The ContentCache helpers, called one after the other.
NextCache ==
  \/ Connect
  \/ ConnectInTime
  \/ ReadyInTime
  \/ ConnectTimeout
  \/ \E p \in {ContentParams} : getCachedContent(p)
  \/ \E p \in {ContentParams} : setCachedContent(p, 1)
  \/ \E userId \in UserIds, period \in Periods : getCachedStats(userId, period)
  \/ \E userId \in UserIds, period \in Periods : setCachedStats(userId, period, 1)
  \/ \E userId \in UserIds : getCachedAnalytics(userId)
  \/ \E userId \in UserIds : setCachedAnalytics(userId, 1)
  \/ \E userId \in UserIds : getCachedPerformance(userId)
  \/ \E userId \in UserIds : setCachedPerformance(userId, 1)
  \/ \E userId \in UserIds : invalidateUserCache(userId)
  \/ ClearNamespace
  \/ ClearNamespaceFinish
SpecCache == Init /\ [][NextCache]_vars

\* ------------------------------------------------------------ routes
\* The handlers that write content rows, and the two that read aggregates.
MutationKinds ==
  {"generate", "templateGenerate", "put", "edit", "schedule", "post", "delete",
   "recalculate"}
ReadKinds == {"analytics", "performance"}

\* The handlers that call ContentCache.invalidateUserCache.
Invalidates(kind) == kind \in {"generate", "templateGenerate", "put", "delete"}

\* A handler's first await.
FirstPc(kind) ==
  CASE kind = "generate" -> "limits"
    [] kind = "templateGenerate" -> "template"
    [] kind \in ReadKinds -> "cacheGet"
    [] OTHER -> "lookup"

\* An authenticated request arrives; requests are handled one at a time.
Request(kind, userId) ==
  /\ CacheCall
  /\ kind \in MutationKinds => db[userId] < MaxWrites
  /\ req' = [NoRequest EXCEPT !.kind = kind, !.user = userId, !.pc = FirstPc(kind)]
  /\ UNCHANGED <<gatewayVars, db, calc>>

\* POST /generate: await checkUserLimits(userId)
CheckUserLimits ==
  /\ req.pc = "limits"
  /\ \/ req' = [req EXCEPT !.pc = "ai"]
     \/ req' = Respond(req, 429)
     \/ req' = Respond(req, 500)
  /\ UNCHANGED <<gatewayVars, db, calc>>

\* POST /templates/generate: the template is looked up.
LoadTemplate ==
  /\ req.pc = "template"
  /\ \/ req' = [req EXCEPT !.pc = "ai"]
     \/ req' = Respond(req, 404)
     \/ req' = Respond(req, 500)
  /\ UNCHANGED <<gatewayVars, db, calc>>

\* await generateContent(...)
GenerateContent ==
  /\ req.pc = "ai"
  /\ \/ req' = [req EXCEPT !.pc = "insert"]
     \/ req.kind = "generate" /\ req' = Respond(req, 503)
     \/ req' = Respond(req, 500)
  /\ UNCHANGED <<gatewayVars, db, calc>>

\* The row is looked up (recalculate: the user's rows are listed).
LookupRow ==
  /\ req.pc = "lookup"
  /\ \/ req' = [req EXCEPT !.pc = "write"]
     \/ req.kind # "recalculate" /\ req' = Respond(req, 404)
     \/ req' = Respond(req, 500)
  /\ UNCHANGED <<gatewayVars, db, calc>>

\* Where a handler goes on once its write has committed.
AfterWrite(r) ==
  CASE r.kind = "generate" -> [r EXCEPT !.pc = "track"]
    [] r.kind = "templateGenerate" -> [r EXCEPT !.pc = "useCount"]
    [] Invalidates(r.kind) -> [r EXCEPT !.pc = "clear", !.ns = 1]
    [] OTHER -> Respond(r, SuccessStatus(r.kind))

\* await db.insert / db.update / db.delete on the content table.
WriteRow ==
  /\ req.pc \in {"insert", "write"}
  /\ \/ /\ db' = [db EXCEPT ![req.user] = @ + 1]
        /\ req' = AfterWrite([req EXCEPT !.wrote = TRUE])
     \/ /\ req' = Respond(req, 500)
        /\ UNCHANGED db
  /\ UNCHANGED <<gatewayVars, calc>>

\* await trackContentGeneration(userId); the template's use count.
TrackUsage ==
  /\ req.pc \in {"track", "useCount"}
  /\ \/ req' = [req EXCEPT !.pc = "clear", !.ns = 1]
     \/ req' = Respond(req, 500)
  /\ UNCHANGED <<gatewayVars, db, calc>>

ReadKey(kind, userId) ==
  IF kind = "analytics" THEN AnalyticsKey(userId) ELSE PerformanceKey(userId)

\* A write-back that passes no TTL, leaving set()'s default.
DefaultTtl(kind) == DEFAULT_TTL

\* setCachedAnalytics(..., result, 1800); setCachedPerformance(userId, result, 3600)
ReadTtl(kind) == IF kind = "analytics" THEN 1800 ELSE 3600

\* getAdvancedAnalytics / getContentPerformanceScores: the cache is asked first.
CacheLookup ==
  /\ req.pc = "cacheGet"
  /\ SvcGet(ReadKey(req.kind, req.user))
  /\ req' = IF ret'.isNull THEN [req EXCEPT !.pc = "query"]
            ELSE [Respond(req, 200) EXCEPT !.result = ret'.val]
  /\ UNCHANGED <<lifecycleVars, lastSet, db, calc>>

\* A handler that keeps what it has when a query fails, and goes on.
ReturnPartial(r) == [r EXCEPT !.pc = "cacheSet"]

\* catch (error) { console.error(...); throw error; } in the service, and
\* the route's catch, which answers 500.
QueryFailed(r) == Respond(r, 500)

\* on a miss the aggregates are computed from the content table,
QueryStore ==
  /\ req.pc = "query"
  /\ \/ req' = [req EXCEPT !.pc = "cacheSet", !.result = db[req.user]]
     \/ req' = QueryFailed(req)
  /\ UNCHANGED <<gatewayVars, db, calc>>

\* cached, and returned.
CacheStore ==
  /\ req.pc = "cacheSet"
  /\ SvcSet(ReadKey(req.kind, req.user), req.result, ReadTtl(req.kind))
  /\ req' = Respond(req, 200)
  /\ UNCHANGED <<lifecycleVars, lastSet, db, calc>>

NextRoutes ==
  \/ Connect
  \/ ConnectInTime
  \/ ReadyInTime
  \/ ConnectTimeout
  \/ \E kind \in MutationKinds \cup ReadKinds, userId \in UserIds : Request(kind, userId)
  \/ CheckUserLimits
  \/ LoadTemplate
  \/ GenerateContent
  \/ LookupRow
  \/ WriteRow
  \/ TrackUsage
  \/ ClearNamespace
  \/ ClearNamespaceFinish
  \/ CacheLookup
  \/ QueryStore
  \/ CacheStore
SpecRoutes == Init /\ [][NextRoutes]_vars

\* --------------------------------------------------- key derivation
\* Date objects: two objects may denote one instant (seconds since the epoch).
Dates == [obj : {1, 2}, time : {1735084800, 1735689600, 1736294400}]

\* Date.prototype.toISOString(), for the instants of the model.
toISOString(d) ==
  CASE d.time = 1735084800 -> "2024-12-25T00:00:00.000Z"
    [] d.time = 1735689600 -> RangeStart
    [] d.time = 1736294400 -> RangeEnd

Namespaces == {"content", "stats", "analytics", "performance"}

\* The arguments the helpers of a namespace are called with.
HelperArgs(ns) ==
  CASE ns = "content" ->
         {ContentParams, [ContentParams EXCEPT !.contentType = "social_caption",
                                               !.platformTarget = "LinkedIn"]}
    [] ns = "stats" -> [userId : UserIds, period : {"week", "month"}]
    [] ns = "analytics" ->
         {a \in [userId : UserIds, startDate : Dates, endDate : Dates] :
             /\ a.endDate.time - a.startDate.time = 604800
             /\ a.startDate.obj = a.endDate.obj}
    [] ns = "performance" -> [userId : UserIds]

\* The parameter object a helper hands to generateKey, stringified.
HelperParamString(ns, a) ==
  CASE ns = "content" -> ContentParamString(a)
    [] ns = "stats" -> StatsParamString(a.userId, a.period)
    [] ns = "analytics" ->
         AnalyticsParamString(a.userId, toISOString(a.startDate), toISOString(a.endDate))
    [] ns = "performance" -> PerformanceParamString(a.userId)

\* A setter pasted from the stats helper with its prefix left in place.
PastedSetterKey(ns, a) == generateKey("stats", HelperParamString(ns, a))

\* The key line of getCachedContent / Stats / Analytics / Performance.
GetterKey(ns, a) == generateKey(ns, HelperParamString(ns, a))

\* The key line of setCachedContent / Stats / Analytics / Performance.
SetterKey(ns, a) == generateKey(ns, HelperParamString(ns, a))

HelperKey(call) ==
  IF call.helper = "get" THEN GetterKey(call.ns, call.args)
  ELSE SetterKey(call.ns, call.args)

HelperCalls(helpers) ==
  UNION {[helper : helpers, ns : {ns}, args : HelperArgs(ns)] : ns \in Namespaces}

NoKey == <<>>

\* A getter call and any other helper call, their keys not yet derived.
InitKeys ==
  /\ Constructed
  /\ calc \in [fn : {"keys"}, a : HelperCalls({"get"}), b : HelperCalls({"get", "set"}),
               keyA : {NoKey}, keyB : {NoKey}]

DeriveKeyA ==
  /\ calc.fn = "keys"
  /\ calc.keyA = NoKey
  /\ calc' = [calc EXCEPT !.keyA = HelperKey(calc.a)]
  /\ UNCHANGED <<gatewayVars, db, req>>

DeriveKeyB ==
  /\ calc.fn = "keys"
  /\ calc.keyB = NoKey
  /\ calc' = [calc EXCEPT !.keyB = HelperKey(calc.b)]
  /\ UNCHANGED <<gatewayVars, db, req>>

NextKeys == DeriveKeyA \/ DeriveKeyB
SpecKeys == InitKeys /\ [][NextKeys]_vars

\* ---------------------------------------------------------- scoring
MaxCalls == 3

Platforms == {"Twitter", "LinkedIn", "Facebook", "Instagram", "none"}
ContentTypes == {"blog_post", "social_caption", "other"}
WordCounts == {49, 50, 101, 300}
CharacterCounts == {50, 51, 150, 281}

\* generatedText, as the sequence of its code points.
Texts ==
 {
   <<>>,   \* the empty string
   <<35, 97, 105>>,   \* #ai
   <<35, 32, 97, 63>>,   \* # a?
   <<84, 114, 121>>,   \* Try
   <<114, 101, 116, 114, 121>>,   \* retry
   <<128512>>,   \* U+1F600
   <<124>>,   \* |
   <<35, 97, 63>>,   \* #a?
   <<35, 97, 32, 116, 114, 121>>,   \* #a try
   <<35, 97, 128512>>,   \* #a U+1F600 (no space)
   <<63, 128512>>,   \* ? U+1F600 (no space)
   <<35, 97, 63, 32, 103, 101, 116, 32, 128512>> }   \* #a? get U+1F600

ContentItems ==
  [contentType : ContentTypes, platformTarget : Platforms, wordCount : WordCounts,
   characterCount : CharacterCounts, generatedText : Texts]

\* \w
WordChar(c) == c \in 48..57 \/ c \in 65..90 \/ c = 95 \/ c \in 97..122

\* The i flag, over ASCII.
LowerCase(c) == IF c \in 65..90 THEN c + 32 ELSE c

\* (click|visit|check|learn|discover|try|get|download|sign up|subscribe)
CallsToAction ==
 {
   <<99, 108, 105, 99, 107>>,   \* click
   <<118, 105, 115, 105, 116>>,   \* visit
   <<99, 104, 101, 99, 107>>,   \* check
   <<108, 101, 97, 114, 110>>,   \* learn
   <<100, 105, 115, 99, 111, 118, 101, 114>>,   \* discover
   <<116, 114, 121>>,   \* try
   <<103, 101, 116>>,   \* get
   <<100, 111, 119, 110, 108, 111, 97, 100>>,   \* download
   <<115, 105, 103, 110, 32, 117, 112>>,   \* sign up
   <<115, 117, 98, 115, 99, 114, 105, 98, 101>> }   \* subscribe

\* [\u{1F600}-\u{1F64F}|\u{1F300}-\u{1F5FF}|\u{1F680}-\u{1F6FF}|\u{1F1E0}-\u{1F1FF}]:
\* inside a class, | is a member.
EmojiClass(c) ==
  \/ c \in 128512..128591
  \/ c = 124
  \/ c \in 127744..128511
  \/ c \in 128640..128767
  \/ c \in 127456..127487

RegExps == {"hashtags", "questions", "callToAction", "emojis"}

RECURSIVE WordRun(_, _)
\* \w+ at position i: the length of the longest run of word characters.
WordRun(text, i) ==
  IF i > Len(text) \/ ~WordChar(text[i]) THEN 0 ELSE 1 + WordRun(text, i + 1)

\* \b(w)\b at position i, ignoring case.
WordAt(w, text, i) ==
  /\ i + Len(w) - 1 <= Len(text)
  /\ \A k \in 1..Len(w) : LowerCase(text[i + k - 1]) = w[k]
  /\ i = 1 \/ ~WordChar(text[i - 1])
  /\ i + Len(w) > Len(text) \/ ~WordChar(text[i + Len(w)])

\* The length of the match of a pattern at position i, 0 when it does not
\* match there.
MatchLength(re, text, i) ==
  CASE re = "hashtags" ->
         IF text[i] = 35 /\ WordRun(text, i + 1) > 0 THEN 1 + WordRun(text, i + 1) ELSE 0
    [] re = "questions" -> IF text[i] = 63 THEN 1 ELSE 0
    [] re = "callToAction" ->
         LET ws == {w \in CallsToAction : WordAt(w, text, i)}
         IN  IF ws = {} THEN 0 ELSE Len(CHOOSE w \in ws : TRUE)
    [] re = "emojis" -> IF EmojiClass(text[i]) THEN 1 ELSE 0

\* RegExp.prototype.test of a global pattern: the search starts at lastIndex,
\* a match leaves lastIndex at its end and a failure resets it to 0.
test(re, text, lastIndex) ==
  LET starts == {i \in (lastIndex + 1)..Len(text) : MatchLength(re, text, i) > 0}
  IN  IF starts = {} THEN [found |-> FALSE, lastIndex |-> 0]
      ELSE LET i == CHOOSE i \in starts : \A j \in starts : i <= j
           IN  [found |-> TRUE, lastIndex |-> i - 1 + MatchLength(re, text, i)]

\* One pattern object kept for all calls: the search resumes where the
\* previous call's match ended.
SharedLastIndex(previous) == previous

\* A regular-expression literal is evaluated on every call, giving a new
\* object whose lastIndex is 0.
FreshLastIndex(previous) == 0

\* A reach multiplier of 0.5 for every platform (tenths).
NarrowReach(platformTarget) == 5

\* switch (platformTarget): reachMultiplier, in tenths.
reachMultiplier(platformTarget) ==
  CASE platformTarget = "Twitter" -> 12
    [] platformTarget = "LinkedIn" -> 8
    [] platformTarget = "Facebook" -> 15
    [] platformTarget = "Instagram" -> 18
    [] OTHER -> 10

\* An engagement rate of 40% on Instagram.
ViralRate(platformTarget) == IF platformTarget = "Instagram" THEN 400 ELSE 20

\* switch (platformTarget): engagementRate, in thousandths.
platformRate(platformTarget) ==
  CASE platformTarget = "Twitter" -> 35
    [] platformTarget = "LinkedIn" -> 25
    [] platformTarget = "Instagram" -> 45
    [] OTHER -> 20

\* switch (contentType): baseEngagement.
baseEngagement(contentType) ==
  CASE contentType = "blog_post" -> 130
    [] contentType = "social_caption" -> 110
    [] OTHER -> 100

\* switch (contentType): engagementRate after its adjustment, in
\* ten-thousandths.
engagementRate(contentItem) ==
  platformRate(contentItem.platformTarget) *
    (CASE contentItem.contentType = "blog_post" -> 8
       [] contentItem.contentType = "social_caption" -> 12
       [] OTHER -> 10)

\* qualityMultiplier, in hundredths.
qualityMultiplier(contentItem, q) ==
  100 + (IF q.hasHashtags THEN 15 ELSE 0)
      + (IF q.hasQuestions THEN 10 ELSE 0)
      + (IF q.hasCallToAction THEN 20 ELSE 0)
      + (IF q.hasEmojis /\ contentItem.platformTarget # "LinkedIn" THEN 10 ELSE 0)

\* lengthMultiplier, in tenths.
lengthMultiplier(contentItem) ==
  CASE contentItem.contentType = "social_caption" ->
         IF contentItem.characterCount > 50 /\ contentItem.characterCount < 150 THEN 12
         ELSE IF contentItem.characterCount > 280 THEN 7 ELSE 10
    [] contentItem.contentType = "blog_post" ->
         IF contentItem.wordCount > 100 /\ contentItem.wordCount < 300 THEN 11
         ELSE IF contentItem.wordCount < 50 THEN 8 ELSE 10
    [] OTHER -> 10

\* Math.round of the quotient num / den, den positive: floor(x + 0.5).
MathRound(num, den) == (2 * num + den) \div (2 * den)

\* The products whose exact value is k + 0.5 and whose double-precision
\* value (100 * 1.1 is 110.00000000000001, 1 + 0.15 + 0.2 is
\* 1.3499999999999999, ...) lies below it, so that Math.round gives k.
RoundsDown(contentItem, q) ==
  \/ /\ contentItem.contentType = "social_caption"
     /\ contentItem.platformTarget = "Twitter"
     /\ lengthMultiplier(contentItem) = 7
     /\ q.hasHashtags /\ ~q.hasCallToAction /\ (q.hasQuestions # q.hasEmojis)
  \/ /\ contentItem.contentType = "blog_post"
     /\ contentItem.platformTarget \notin {"Twitter", "LinkedIn", "Facebook", "Instagram"}
     /\ lengthMultiplier(contentItem) = 10
     /\ q.hasHashtags /\ q.hasCallToAction /\ ~q.hasQuestions /\ ~q.hasEmojis
  \/ /\ contentItem.contentType \notin {"blog_post", "social_caption"}
     /\ contentItem.platformTarget = "Facebook"
     /\ q.hasHashtags /\ q.hasCallToAction /\ ~q.hasQuestions /\ ~q.hasEmojis

\* Math.round(baseEngagement * reachMultiplier * qualityMultiplier *
\* lengthMultiplier).
potentialReach(contentItem, q) ==
  MathRound(baseEngagement(contentItem.contentType)
              * reachMultiplier(contentItem.platformTarget)
              * qualityMultiplier(contentItem, q) * lengthMultiplier(contentItem), 10000)
    - (IF RoundsDown(contentItem, q) THEN 1 ELSE 0)

\* 0 / 0.
NaN == [nan |-> TRUE]

\* Math.round((estimatedEngagements / potentialReach) * 100).
engagementScore(estimatedEngagements, reach) ==
  IF reach = 0 THEN NaN ELSE MathRound(estimatedEngagements * 100, reach)

\* calculateEngagementMetrics(contentItem), the four patterns starting
\* their searches at lastIndex; returns the metrics and where the patterns'
\* searches ended.
calculateEngagementMetrics(contentItem, lastIndex) ==
  LET t == [re \in RegExps |->
              test(re, contentItem.generatedText, FreshLastIndex(lastIndex[re]))]
      q == [hasHashtags |-> t["hashtags"].found,
            hasQuestions |-> t["questions"].found,
            hasCallToAction |-> t["callToAction"].found,
            hasEmojis |-> t["emojis"].found]
      reach == potentialReach(contentItem, q)
      estimatedEngagements == MathRound(reach * engagementRate(contentItem), 10000)
  IN  [metrics |->
         [potentialReach |-> reach,
          estimatedEngagements |-> estimatedEngagements,
          estimatedClicks |-> MathRound(estimatedEngagements * 15, 100),
          estimatedShares |-> MathRound(estimatedEngagements * 8, 100),
          engagementScore |-> engagementScore(estimatedEngagements, reach),
          qualityFactors |->
            [hasHashtags |-> q.hasHashtags,
             hasQuestions |-> q.hasQuestions,
             hasCallToAction |-> q.hasCallToAction,
             hasEmojis |-> q.hasEmojis,
             optimalLength |-> lengthMultiplier(contentItem) > 10]],
       lastIndex |-> [re \in RegExps |-> t[re].lastIndex]]

\* Another item, scored between two calls on the item under study.
OtherItem ==
  [contentType |-> "social_caption", platformTarget |-> "Instagram", wordCount |-> 50,
   characterCount |-> 51, generatedText |-> <<35, 97, 63>>]

\* An item and no call yet.
InitScore ==
  /\ Constructed
  /\ calc \in [fn : {"score"}, item : ContentItems, other : {OtherItem}, calls : {<<>>},
               lastIndex : {[re \in RegExps |-> 0]}]

\* One call of calculateEngagementMetrics, on the item or on the other item.
Score(target) ==
  /\ calc.fn = "score"
  /\ Len(calc.calls) < MaxCalls
  /\ LET contentItem == IF target = "item" THEN calc.item ELSE calc.other
         out == calculateEngagementMetrics(contentItem, calc.lastIndex)
     IN  calc' = [calc EXCEPT
                    !.calls = Append(@, [target |-> target, metrics |-> out.metrics]),
                    !.lastIndex = out.lastIndex]
  /\ UNCHANGED <<gatewayVars, db, req>>

NextScore == \E target \in {"item", "other"} : Score(target)
SpecScore == InitScore /\ [][NextScore]_vars

\* -------------------------------------------------------- aggregates
MaxRows == 3

\* potential_reach_metric of a row (default 0).
Reaches == {0, 50}

\* The items the rows of the model hold: their engagementScore is 2, 4, 5
\* and, for the one without a platform, 3.
ScoredItems ==
  {[contentType |-> "blog_post", platformTarget |-> "LinkedIn", wordCount |-> 101,
    characterCount |-> 150, generatedText |-> <<>>],
   [contentType |-> "other", platformTarget |-> "Twitter", wordCount |-> 50,
    characterCount |-> 51, generatedText |-> <<35, 97, 105>>],
   [contentType |-> "social_caption", platformTarget |-> "Instagram", wordCount |-> 49,
    characterCount |-> 281, generatedText |-> <<63, 128512>>],
   [contentType |-> "social_caption", platformTarget |-> "none", wordCount |-> 49,
    characterCount |-> 281, generatedText |-> <<>>]}

\* A content row of the user: the period its createdAt falls in, its stored
\* reach and the fields calculateEngagementMetrics reads.
Rows == [period : {"current", "previous"}, potentialReachMetric : Reaches,
         item : ScoredItems]

\* A JavaScript number with the value n.
JSNumber(n) == [null |-> FALSE, str |-> FALSE, num |-> n, den |-> 1]

\* The string of a decimal, as sum() and avg() are mapped: num / den.
Decimal(num, den) == [null |-> FALSE, str |-> TRUE, num |-> num, den |-> den]

\* SQL NULL, not mapped.
SqlNull == [null |-> TRUE, str |-> FALSE, num |-> 0, den |-> 1]

\* The rows of a period: the where clause on createdAt.
InPeriod(rows, period) == SelectSeq(rows, LAMBDA r : r.period = period)

RECURSIVE Total(_, _)
Total(rows, column) ==
  IF rows = <<>> THEN 0 ELSE column[Head(rows)] + Total(Tail(rows), column)

\* count(): a number.
count(rows) == JSNumber(Len(rows))

\* sum(column): NULL over no rows, else the sum as a string.
sum(rows, column) ==
  IF rows = <<>> THEN SqlNull ELSE Decimal(Total(rows, column), 1)

\* avg(column): NULL over no rows, else the mean as a string.
avg(rows, column) ==
  IF rows = <<>> THEN SqlNull ELSE Decimal(Total(rows, column), Len(rows))

\* v || 0: null and the number 0 are falsy, a non-empty string is not.
OrZero(v) == IF v.null \/ (~v.str /\ v.num = 0) THEN JSNumber(0) ELSE v

\* The columns of the rows.
ReachColumn == [r \in Rows |-> r.potentialReachMetric]
WordCountColumn == [r \in Rows |-> r.item.wordCount]
CharacterCountColumn == [r \in Rows |-> r.item.characterCount]

\* previous > 0 ? ((current - previous) / previous) * 100 : 0, as a quotient.
Trend(current, previous) ==
  IF previous.num > 0 THEN [num |-> (current.num - previous.num) * 100, den |-> previous.num]
  ELSE [num |-> 0, den |-> 1]

\* Math.round(x * 100) / 100, in hundredths.
Round2(x) == MathRound(x.num * 100, x.den)

\* getAdvancedAnalytics between the cache lookup and the cache store: the
\* queries on the rows of the user and the result built from them.
getAdvancedAnalytics(rows) ==
  LET current == InPeriod(rows, "current")
      previous == InPeriod(rows, "previous")
      contentStats == [total |-> count(current),
                       avgWordCount |-> avg(current, WordCountColumn),
                       avgCharacterCount |-> avg(current, CharacterCountColumn),
                       avgReach |-> avg(current, ReachColumn),
                       totalReach |-> sum(current, ReachColumn)]
      previousStats == [total |-> count(previous),
                        totalReach |-> sum(previous, ReachColumn)]
      currentTotal == OrZero(contentStats.total)
      previousTotal == OrZero(previousStats.total)
      currentReach == OrZero(contentStats.totalReach)
      previousReach == OrZero(previousStats.totalReach)
      contentTrend == Trend(currentTotal, previousTotal)
      reachTrend == Trend(currentReach, previousReach)
  IN  [overview |-> [total |-> OrZero(contentStats.total),
                     avgWordCount |-> OrZero(contentStats.avgWordCount),
                     avgCharacterCount |-> OrZero(contentStats.avgCharacterCount),
                     avgReach |-> OrZero(contentStats.avgReach),
                     totalReach |-> OrZero(contentStats.totalReach)],
       trends |-> [contentTrend |-> Round2(contentTrend),
                   reachTrend |-> Round2(reachTrend)],
       periodComparison |->
         [current |-> [total |-> currentTotal, reach |-> currentReach],
          previous |-> [total |-> previousTotal, reach |-> previousReach]]]

\* The scores of the rows: performanceScore: metrics.engagementScore.
scoredContent(rows) ==
  [i \in 1..Len(rows) |->
     calculateEngagementMetrics(rows[i].item, [re \in RegExps |-> 0]).metrics.engagementScore]

RECURSIVE reduce(_)
\* scoredContent.reduce((sum, item) => sum + item.performanceScore, 0)
reduce(scores) == IF scores = <<>> THEN 0 ELSE Head(scores) + reduce(Tail(scores))

\* An average rounded down.
TruncatedAverage(scores) ==
  IF Len(scores) = 0 THEN NaN ELSE JSNumber(reduce(scores) \div Len(scores))

\* Math.round(avgScore), avgScore being reduce(...) / scoredContent.length:
\* 0 / 0 is NaN, and so is its rounding.
averageScore(scores) ==
  IF Len(scores) = 0 THEN NaN ELSE JSNumber(MathRound(reduce(scores), Len(scores)))

\* The 10 of avgScore + 10 and avgScore - 10.
Margin == 10

\* filter(item => item.performanceScore > avgScore + 10).length; a
\* comparison with NaN is false.
topPerformersCount(scores) ==
  Cardinality({i \in 1..Len(scores) :
                 scores[i] * Len(scores) > reduce(scores) + Margin * Len(scores)})

\* filter(item => item.performanceScore < avgScore - 10).length
needsImprovementCount(scores) ==
  Cardinality({i \in 1..Len(scores) :
                 scores[i] * Len(scores) < reduce(scores) - Margin * Len(scores)})

\* typeScores[key].total += score; typeScores[key].count++, the entry being
\* made first when the key is new. The entries are kept in insertion order,
\* the order Object.entries lists them in.
AddScore(groups, key, score) ==
  IF \E g \in 1..Len(groups) : groups[g].key = key
  THEN [g \in 1..Len(groups) |->
          IF groups[g].key = key
          THEN [groups[g] EXCEPT !.total = @ + score, !.count = @ + 1]
          ELSE groups[g]]
  ELSE Append(groups, [key |-> key, total |-> score, count |-> 1])

RECURSIVE typeScores(_, _, _)
\* contentItems.forEach(...) of getBestPerformingType, over the first n items.
typeScores(rows, scores, n) ==
  IF n = 0 THEN <<>>
  ELSE AddScore(typeScores(rows, scores, n - 1), rows[n].item.contentType, scores[n])

RECURSIVE platformScores(_, _, _)
\* contentItems.forEach(...) of getBestPerformingPlatform: an item without
\* platformTarget is passed over.
platformScores(rows, scores, n) ==
  IF n = 0 THEN <<>>
  ELSE IF rows[n].item.platformTarget = "none" THEN platformScores(rows, scores, n - 1)
  ELSE AddScore(platformScores(rows, scores, n - 1), rows[n].item.platformTarget, scores[n])

\* A comparison that lets a later group with an equal average win.
AtLeastBest(data, best) == data.total * best.count >= best.total * data.count

\* average > bestAverage
AboveBest(data, best) == data.total * best.count > best.total * data.count

RECURSIVE BestGroup(_, _)
\* let best = null; let bestAverage = 0; Object.entries(...).forEach(...),
\* over the first n entries.
BestGroup(groups, n) ==
  IF n = 0 THEN [key |-> "null", total |-> 0, count |-> 1]
  ELSE LET best == BestGroup(groups, n - 1)
       IN  IF AboveBest(groups[n], best) THEN groups[n] ELSE best

\* getBestPerformingType(scoredContent)
getBestPerformingType(rows, scores) ==
  LET best == BestGroup(typeScores(rows, scores, Len(rows)),
                        Len(typeScores(rows, scores, Len(rows))))
  IN  [type |-> best.key, averageScore |-> MathRound(best.total, best.count)]

\* getBestPerformingPlatform(scoredContent)
getBestPerformingPlatform(rows, scores) ==
  LET best == BestGroup(platformScores(rows, scores, Len(rows)),
                        Len(platformScores(rows, scores, Len(rows))))
  IN  [platform |-> best.key, averageScore |-> MathRound(best.total, best.count)]

\* getContentPerformanceScores between the cache lookup and the cache
\* store: the rows of the user, scored, and the insights.
getContentPerformanceScores(rows) ==
  LET scores == scoredContent(rows)
  IN  [contentScores |-> scores,
       insights |-> [averageScore |-> averageScore(scores),
                     topPerformersCount |-> topPerformersCount(scores),
                     needsImprovementCount |-> needsImprovementCount(scores),
                     bestPerformingType |-> getBestPerformingType(rows, scores),
                     bestPerformingPlatform |-> getBestPerformingPlatform(rows, scores)]]

NoResult == [none |-> TRUE]

\* The rows of one user; neither function called yet.
InitMetrics ==
  /\ Constructed
  /\ calc \in [fn : {"metrics"}, rows : UNION {[1..n -> Rows] : n \in 0..MaxRows},
               analytics : {NoResult}, performance : {NoResult}]

AdvancedAnalytics ==
  /\ calc.fn = "metrics"
  /\ calc.analytics = NoResult
  /\ calc' = [calc EXCEPT !.analytics = getAdvancedAnalytics(calc.rows)]
  /\ UNCHANGED <<gatewayVars, db, req>>

PerformanceScores ==
  /\ calc.fn = "metrics"
  /\ calc.performance = NoResult
  /\ calc' = [calc EXCEPT !.performance = getContentPerformanceScores(calc.rows)]
  /\ UNCHANGED <<gatewayVars, db, req>>

NextMetrics == AdvancedAnalytics \/ PerformanceScores
SpecMetrics == InitMetrics /\ [][NextMetrics]_vars

\* ---------------------------------------------------- analytics ranges
MaxTable == 2

\* Days, one tick each; createdAt is the midnight a day begins with.
Days == 0..5

\* The (contentType, platformTarget) pairs of the rows; "none" is NULL.
GroupList == <<[contentType |-> "blog_post", platformTarget |-> "Twitter"],
               [contentType |-> "social_caption", platformTarget |-> "none"]>>

\* Rows of the content table, of any user.
TableRows == [userId : UserIds, createdAt : Days, group : 1..Len(GroupList)]

\* and(eq(content.userId, userId), gte(content.createdAt, from),
\*     lt(content.createdAt, to))
Selected(table, userId, from, to) ==
  {r \in table : r.userId = userId /\ r.createdAt >= from /\ r.createdAt < to}

\* The where clause of the three queries on the current period.
CurrentRows(table, userId, startDate, endDate) == Selected(table, userId, startDate, endDate)

\* periodLength = endDate - startDate; previousStart = startDate -
\* periodLength; previousEnd = startDate: the where clause of previousStats.
PreviousRows(table, userId, startDate, endDate) ==
  Selected(table, userId, startDate - (endDate - startDate), startDate)

RECURSIVE ByType(_, _)
\* groupBy(content.contentType, content.platformTarget): one result row per
\* pair that has rows, with count().
ByType(selected, g) ==
  IF g > Len(GroupList) THEN <<>>
  ELSE LET n == Cardinality({r \in selected : r.group = g})
       IN  (IF n > 0 THEN <<[contentType |-> GroupList[g].contentType,
                             platformTarget |-> GroupList[g].platformTarget,
                             count |-> n]>>
            ELSE <<>>) \o ByType(selected, g + 1)

RECURSIVE Daily(_, _)
\* groupBy(DATE(createdAt)).orderBy(DATE(createdAt)): one result row per day
\* that has rows, in ascending order of the day.
Daily(selected, d) ==
  IF d > 5 THEN <<>>
  ELSE LET n == Cardinality({r \in selected : r.createdAt = d})
       IN  (IF n > 0 THEN <<[date |-> d, count |-> n]>> ELSE <<>>) \o Daily(selected, d + 1)

\* A call getAdvancedAnalytics(userId, startDate, endDate) that missed the
\* cache and is about to run its first query, over a table of a few rows.
InitRanges ==
  /\ Constructed
  /\ \E table \in {t \in SUBSET TableRows : Cardinality(t) <= MaxTable} :
       calc = [fn |-> "ranges", userId |-> 1, startDate |-> 3, endDate |-> 5,
               table |-> table, tables |-> {table}, written |-> FALSE, pc |-> "contentStats",
               total |-> 0, contentByType |-> <<>>, dailyTrends |-> <<>>,
               previousTotal |-> 0]

\* const contentStats = await db.select({ total: count(), ... })
QueryContentStats ==
  /\ calc.fn = "ranges" /\ calc.pc = "contentStats"
  /\ calc' = [calc EXCEPT
                !.total = Cardinality(CurrentRows(calc.table, calc.userId,
                                                  calc.startDate, calc.endDate)),
                !.pc = "contentByType"]
  /\ UNCHANGED <<gatewayVars, db, req>>

\* const contentByType = await db.select(...).groupBy(...)
QueryContentByType ==
  /\ calc.fn = "ranges" /\ calc.pc = "contentByType"
  /\ calc' = [calc EXCEPT
                !.contentByType = ByType(CurrentRows(calc.table, calc.userId,
                                                     calc.startDate, calc.endDate), 1),
                !.pc = "dailyTrends"]
  /\ UNCHANGED <<gatewayVars, db, req>>

\* const dailyTrends = await db.select(...).groupBy(...).orderBy(...)
QueryDailyTrends ==
  /\ calc.fn = "ranges" /\ calc.pc = "dailyTrends"
  /\ calc' = [calc EXCEPT
                !.dailyTrends = Daily(CurrentRows(calc.table, calc.userId,
                                                  calc.startDate, calc.endDate), 0),
                !.pc = "previousStats"]
  /\ UNCHANGED <<gatewayVars, db, req>>

\* const previousStats = await db.select({ total: count(), ... }); the
\* result is built from the four answers.
QueryPreviousStats ==
  /\ calc.fn = "ranges" /\ calc.pc = "previousStats"
  /\ calc' = [calc EXCEPT
                !.previousTotal = Cardinality(PreviousRows(calc.table, calc.userId,
                                                           calc.startDate, calc.endDate)),
                !.pc = "done"]
  /\ UNCHANGED <<gatewayVars, db, req>>

\* Another request commits an insert into content while the call is at one
\* of its awaits; one such write is followed per call.
InsertRow(r) ==
  /\ calc.fn = "ranges" /\ calc.pc # "done"
  /\ ~calc.written
  /\ r \notin calc.table
  /\ calc' = [calc EXCEPT !.table = @ \cup {r}, !.tables = @ \cup {calc.table \cup {r}}, !.written = TRUE]
  /\ UNCHANGED <<gatewayVars, db, req>>

\* Another request commits a delete from content (DELETE /:id) while the
\* call is at one of its awaits.
DeleteRow(r) ==
  /\ calc.fn = "ranges" /\ calc.pc # "done"
  /\ ~calc.written
  /\ r \in calc.table
  /\ calc' = [calc EXCEPT !.table = @ \ {r}, !.tables = @ \cup {calc.table \ {r}}, !.written = TRUE]
  /\ UNCHANGED <<gatewayVars, db, req>>

NextRanges ==
  \/ QueryContentStats
  \/ QueryContentByType
  \/ QueryDailyTrends
  \/ QueryPreviousStats
  \/ \E r \in TableRows : InsertRow(r)
  \/ \E r \in TableRows : DeleteRow(r)
SpecRanges == InitRanges /\ [][NextRanges]_vars

\* ------------------------------------------------------- content rows
\* Primary keys of the content table: the handlers other than recalculate
\* address one row by its key, and recalculate scores each row by itself, so
\* one row is followed.
ContentIds == {1}

\* Texts as the handlers see them: the characters that decide the quality
\* factors, with the word and character counts of the whole text.
Documents ==
  {[generatedText |-> <<>>, wordCount |-> 49, characterCount |-> 281],
   [generatedText |-> <<35, 97, 105>>, wordCount |-> 101, characterCount |-> 150]}

\* contentType and platformTarget as validation.js admits them, and one
\* value of each that PUT /:id and the templates accept besides.
StoredTypes == {"blog_post", "social_caption", "other"}
StoredPlatforms == {"LinkedIn", "Instagram", "none"}

\* Math.random() * 0.4 + 0.8, in thousandths, for Math.random() = 0, 0.75
\* and 0.9975.
Randoms == {800, 1100, 1199}

NoRow == [status |-> "absent"]

\* platformMultipliers[platformTarget] || 1.0, in tenths.
platformMultiplier(platformTarget) ==
  CASE platformTarget = "Twitter" -> 12
    [] platformTarget = "LinkedIn" -> 8
    [] platformTarget = "Instagram" -> 15
    [] OTHER -> 10

\* contentMultipliers[contentType] || 1.0, in tenths.
contentMultiplier(contentType) == IF contentType = "blog_post" THEN 13 ELSE 10

\* qualityScore, in tenths.
qualityScore(contentType, wordCount, characterCount) ==
  CASE contentType = "blog_post" ->
         (IF wordCount >= 100 /\ wordCount <= 250 THEN 12 ELSE 9)
    [] contentType = "social_caption" ->
         (IF characterCount >= 50 /\ characterCount <= 300 THEN 11 ELSE 9)
    [] OTHER -> 10

\* Math.max(50, potentialReach)
AtLeast50(reach) == IF reach > 50 THEN reach ELSE 50

\* calculatePotentialReach of ai-generator.js, random being the value
\* Math.random() * 0.4 + 0.8 took.
calculatePotentialReach(contentType, platformTarget, wordCount, characterCount, random) ==
  AtLeast50(MathRound(100 * platformMultiplier(platformTarget)
                        * contentMultiplier(contentType)
                        * qualityScore(contentType, wordCount, characterCount) * random,
                      1000000))

\* The column default of potential_reach_metric.
ColumnDefault(metrics) == 0

\* potentialReachMetric: engagementMetrics.potentialReach
StoredReach(metrics) == metrics.potentialReach

\* The item of a row, as calculateEngagementMetrics destructures it.
ItemOf(row) ==
  [contentType |-> row.contentType, platformTarget |-> row.platformTarget,
   wordCount |-> row.wordCount, characterCount |-> row.characterCount,
   generatedText |-> row.generatedText]

\* calculateEngagementMetrics(item) of a call of its own.
MetricsOf(item) == calculateEngagementMetrics(item, [re \in RegExps |-> 0]).metrics

\* An empty content table.
InitContent ==
  /\ Constructed
  /\ calc = [fn |-> "content", rows |-> [id \in ContentIds |-> NoRow]]

\* POST /generate: the generated text is scored and inserted as a draft.
GenerateRow(id, contentType, platformTarget, document) ==
  /\ calc.fn = "content" /\ calc.rows[id] = NoRow
  /\ contentType \in {"blog_post", "social_caption"}
  /\ LET item == [contentType |-> contentType, platformTarget |-> platformTarget,
                  wordCount |-> document.wordCount,
                  characterCount |-> document.characterCount,
                  generatedText |-> document.generatedText]
     IN  calc' = [calc EXCEPT !.rows[id] =
                    [contentType |-> contentType, platformTarget |-> platformTarget,
                     wordCount |-> document.wordCount,
                     characterCount |-> document.characterCount,
                     generatedText |-> document.generatedText,
                     potentialReachMetric |-> StoredReach(MetricsOf(item)),
                     status |-> "draft"]]
  /\ UNCHANGED <<gatewayVars, db, req>>

\* POST /templates/generate: the row takes the template's type and platform
\* and the reach generateContent returned.
GenerateFromTemplate(id, contentType, platformTarget, document, random) ==
  /\ calc.fn = "content" /\ calc.rows[id] = NoRow
  /\ calc' = [calc EXCEPT !.rows[id] =
                [contentType |-> contentType, platformTarget |-> platformTarget,
                 wordCount |-> document.wordCount,
                 characterCount |-> document.characterCount,
                 generatedText |-> document.generatedText,
                 potentialReachMetric |->
                   calculatePotentialReach(contentType, platformTarget, document.wordCount,
                                           document.characterCount, random),
                 status |-> "draft"]]
  /\ UNCHANGED <<gatewayVars, db, req>>

\* PUT /:id: the fields of the body replace the row's; the reach is not
\* among them.  A field the body leaves out is one given its stored value.
PutRow(id, contentType, platformTarget, document, status) ==
  /\ calc.fn = "content" /\ calc.rows[id] # NoRow
  /\ calc' = [calc EXCEPT !.rows[id] =
                [@ EXCEPT !.contentType = contentType,
                          !.platformTarget = platformTarget,
                          !.generatedText = document.generatedText,
                          !.wordCount = document.wordCount,
                          !.characterCount = document.characterCount,
                          !.status = status]]
  /\ UNCHANGED <<gatewayVars, db, req>>

\* PATCH /:id/edit: text and counts.
EditRow(id, document) ==
  /\ calc.fn = "content" /\ calc.rows[id] # NoRow
  /\ calc' = [calc EXCEPT !.rows[id] =
                [@ EXCEPT !.generatedText = document.generatedText,
                          !.wordCount = document.wordCount,
                          !.characterCount = document.characterCount]]
  /\ UNCHANGED <<gatewayVars, db, req>>

\* PATCH /:id/schedule
ScheduleRow(id) ==
  /\ calc.fn = "content" /\ calc.rows[id] # NoRow
  /\ calc' = [calc EXCEPT !.rows[id].status = "scheduled"]
  /\ UNCHANGED <<gatewayVars, db, req>>

\* PATCH /:id/post
PostRow(id) ==
  /\ calc.fn = "content" /\ calc.rows[id] # NoRow
  /\ calc' = [calc EXCEPT !.rows[id].status = "posted_simulated"]
  /\ UNCHANGED <<gatewayVars, db, req>>

\* POST /analytics/recalculate: every row of the user is scored again.
Recalculate ==
  /\ calc.fn = "content"
  /\ calc' = [calc EXCEPT !.rows =
                [id \in ContentIds |->
                   IF calc.rows[id] = NoRow THEN NoRow
                   ELSE [calc.rows[id] EXCEPT !.potentialReachMetric =
                           MetricsOf(ItemOf(calc.rows[id])).potentialReach]]]
  /\ UNCHANGED <<gatewayVars, db, req>>

\* DELETE /:id
RemoveRow(id) ==
  /\ calc.fn = "content" /\ calc.rows[id] # NoRow
  /\ calc' = [calc EXCEPT !.rows[id] = NoRow]
  /\ UNCHANGED <<gatewayVars, db, req>>

NextContent ==
  \/ \E id \in ContentIds, contentType \in StoredTypes, platformTarget \in StoredPlatforms,
        document \in Documents :
       \/ GenerateRow(id, contentType, platformTarget, document)
       \/ \E random \in Randoms :
            GenerateFromTemplate(id, contentType, platformTarget, document, random)
       \/ \E status \in {"draft", "scheduled", "posted_simulated"} :
            PutRow(id, contentType, platformTarget, document, status)
  \/ \E id \in ContentIds, document \in Documents : EditRow(id, document)
  \/ \E id \in ContentIds : ScheduleRow(id)
  \/ \E id \in ContentIds : PostRow(id)
  \/ Recalculate
  \/ \E id \in ContentIds : RemoveRow(id)
SpecContent == InitContent /\ [][NextContent]_vars

\* ---------------------------------------------------- generation limit
\* parseInt(process.env.MAX_CONTENT_GENERATIONS_PER_USER_PER_DAY) || 50, as
\* the environment of the model sets it.
maxGenerationsPerDay == 2

\* The POST /generate requests of one user on one day.
Generations == {1, 2, 3}

\* No row of user_usage read.
NoUsage == [id |-> 0, contentGenerationsCount |-> 0]

\* select().from(userUsage).where(user, today).limit(1): the rows the query
\* may answer with, any one of the day's rows of the user, or none.
TodayUsage(usage) ==
  IF usage = <<>> THEN {NoUsage}
  ELSE {[id |-> i, contentGenerationsCount |-> usage[i]] : i \in 1..Len(usage)}

\* canGenerate: currentGenerations < maxGenerationsPerDay
canGenerate(todayUsage) == todayUsage.contentGenerationsCount < maxGenerationsPerDay

\* The requests that are between their first and their last step.
InFlight == {g \in Generations : calc.pc[g] \notin {"idle", "done", "limited"}}

\* A day on which n generations were served one after another, and the
\* requests not yet made.
InitLimit ==
  /\ Constructed
  /\ \E n \in 0..maxGenerationsPerDay :
       calc = [fn |-> "limit",
               usage |-> IF n = 0 THEN <<>> ELSE <<n>>,
               inserted |-> n, tracked |-> n, overlapped |-> FALSE,
               pc |-> [g \in Generations |-> "idle"],
               existingUsage |-> [g \in Generations |-> NoUsage]]

\* const limits = await checkUserLimits(userId); 429 unless canGenerate.
CheckLimits(g) ==
  /\ calc.fn = "limit" /\ calc.pc[g] = "idle"
  /\ \E todayUsage \in TodayUsage(calc.usage) :
       calc' = [calc EXCEPT
                  !.pc[g] = IF canGenerate(todayUsage) THEN "generate" ELSE "limited",
                  !.overlapped = @ \/ InFlight # {}]
  /\ UNCHANGED <<gatewayVars, db, req>>

\* generateContent, then db.insert(content).
InsertContent(g) ==
  /\ calc.fn = "limit" /\ calc.pc[g] = "generate"
  /\ calc' = [calc EXCEPT !.inserted = @ + 1, !.pc[g] = "track"]
  /\ UNCHANGED <<gatewayVars, db, req>>

\* trackContentGeneration: const existingUsage = await db.select()...
ReadUsage(g) ==
  /\ calc.fn = "limit" /\ calc.pc[g] = "track"
  /\ \E todayUsage \in TodayUsage(calc.usage) :
       calc' = [calc EXCEPT !.existingUsage[g] = todayUsage, !.pc[g] = "write"]
  /\ UNCHANGED <<gatewayVars, db, req>>

\* trackContentGeneration: the update of the row read, to the count read
\* plus one, or the insert of a row with count 1.
WriteUsage(g) ==
  /\ calc.fn = "limit" /\ calc.pc[g] = "write"
  /\ LET existingUsage == calc.existingUsage[g]
     IN  calc' = [calc EXCEPT
                    !.usage = IF existingUsage = NoUsage THEN Append(@, 1)
                              ELSE [@ EXCEPT ![existingUsage.id] =
                                      existingUsage.contentGenerationsCount + 1],
                    !.tracked = @ + 1,
                    !.pc[g] = "done"]
  /\ UNCHANGED <<gatewayVars, db, req>>

NextLimit ==
  \/ \E g \in Generations : CheckLimits(g)
  \/ \E g \in Generations : InsertContent(g)
  \/ \E g \in Generations : ReadUsage(g)
  \/ \E g \in Generations : WriteUsage(g)
SpecLimit == InitLimit /\ [][NextLimit]_vars

\* ------------------------------------------- a read beside a mutation
\* GET /analytics/advanced of a user, served while the handler of another
\* request runs: where getAdvancedAnalytics stands, what it computed, whether
\* its query ran before the other request's write committed, and whether its
\* cache write ran after that request's invalidateUserCache had returned.
NoReader ==
  [fn |-> "reader", user |-> 1, pc |-> "idle", result |-> 0, queriedBeforeWrite |-> FALSE,
   storedAfterInvalidate |-> FALSE, status |-> 0]

InitRace == Constructed /\ calc = NoReader

\* The reader's calls to the cache are followed outside the await of a clear().
ReaderCall == calc.fn = "reader" /\ Started /\ Serving /\ ~ret.pending

\* const cached = await ContentCache.getCachedAnalytics(...); if (cached)
\* return cached;
ReaderLookup ==
  /\ ReaderCall /\ calc.pc = "idle"
  /\ SvcGet(AnalyticsKey(calc.user))
  /\ calc' = IF ret'.isNull THEN [calc EXCEPT !.pc = "query"]
             ELSE [calc EXCEPT !.pc = "done", !.result = ret'.val, !.status = 200]
  /\ UNCHANGED <<lifecycleVars, lastSet, db, req>>

\* The queries on the content table, of the rows as they are now.
ReaderQuery ==
  /\ calc.fn = "reader" /\ calc.pc = "query"
  /\ \/ calc' = [calc EXCEPT !.pc = "cacheSet", !.result = db[calc.user],
                             !.queriedBeforeWrite =
                                /\ req.kind \in MutationKinds
                                /\ req.user = calc.user
                                /\ ~req.wrote /\ req.pc # "done"]
     \/ calc' = [calc EXCEPT !.pc = "done", !.status = 500]
  /\ UNCHANGED <<gatewayVars, db, req>>

\* await ContentCache.setCachedAnalytics(..., result, 1800); return result;
ReaderStore ==
  /\ ReaderCall /\ calc.pc = "cacheSet"
  /\ SvcSet(AnalyticsKey(calc.user), calc.result, ReadTtl("analytics"))
  /\ calc' = [calc EXCEPT !.pc = "done", !.status = 200,
                          !.storedAfterInvalidate =
                             /\ calc.queriedBeforeWrite
                             /\ req.pc = "done" /\ req.wrote /\ req.invalidated]
  /\ UNCHANGED <<lifecycleVars, lastSet, db, req>>

\* A handler that writes a row and then invalidates, beside the reader.
NextRace ==
  \/ Connect
  \/ ConnectInTime
  \/ ReadyInTime
  \/ ConnectTimeout
  \/ \E kind \in {"put", "delete"}, userId \in UserIds : Request(kind, userId)
  \/ LookupRow
  \/ WriteRow
  \/ ClearNamespace
  \/ ClearNamespaceFinish
  \/ ReaderLookup
  \/ ReaderQuery
  \/ ReaderStore
SpecRace == InitRace /\ [][NextRace]_vars

\* ------------------------------------------------------------ claims
DataOps == {"get", "set", "del", "clear"}

\* The latest call was a get that found the value of the caller's set.
GetHit == ~ret.threw /\ ~ret.isNull /\ ret.val = ret.exp.val

\* C1: with Redis failing on every connection attempt and every operation,
\* a set followed within its TTL by a get of the same key returns the value,
\* from the fallback store, and neither call throws: before connect() has
\* finished as well as after.
C1_FallbackTransparency ==
  /\ ret.op \in {"get", "set"} => ~ret.threw
  /\ (ret.op = "get" /\ ret.exp.state = "live") => (GetHit /\ ret.routed = "memory")

\* C2, first half: once the client has been given up, no call is routed to Redis.
LatchRouting == (ret.op \in DataOps /\ ret.gaveUp) => ret.routed = "memory"

\* C2: after three consecutive error events no get/set/del/clear is routed to
\* Redis any more, whatever events follow, and the fallback store serves: a
\* set made after that, followed within its TTL by a get, returns the value.
C2_PermanentFailureLatch ==
  /\ LatchRouting
  /\ (ret.op = "get" /\ ret.gaveUp /\ ret.exp.state = "live" /\ ret.exp.gaveUp) => GetHit

\* C3: on either backend, a get served by the backend that served the set
\* returns the value while the TTL given to set has not passed, and absent
\* once it has.
C3_TtlExpiry ==
  (ret.op = "get" /\ ret.routed = ret.exp.routed) =>
    /\ ret.exp.state = "live" => GetHit
    /\ ret.exp.state = "expired" => ret.isNull

\* invalidateUserCache is between its first clear() and its return.
Invalidating == req.pc \in {"clear", "clearWait"}

\* C4: when invalidateUserCache(U) returns, every stats, analytics and
\* performance entry of U misses, on Redis as on the fallback store.
C4_InvalidationReaches ==
  [][(Invalidating /\ req'.pc = "done") =>
       \A k \in UserKeys(req.user) : Lookup(k)'.isNull]_vars

\* C5: no step of invalidateUserCache(U1) touches an entry of another user:
\* a get that hit before the step returns the same value after it.
C5_InvalidationScope ==
  [][(Invalidating /\ req' # req) =>
       \A userId \in UserIds \ {req.user} : \A k \in UserKeys(userId) :
          ~Lookup(k).isNull => Lookup(k)' = Lookup(k)]_vars

\* C6: no step of invalidateUserCache touches an entry of the content
\* namespace: a getCachedContent that hit before the step hits after it.
C6_ContentUntouched ==
  [][(Invalidating /\ req' # req) =>
       (~Lookup(ContentKey).isNull => Lookup(ContentKey)' = Lookup(ContentKey))]_vars

\* C7: a request that wrote a content row has run invalidateUserCache to its
\* end by the time it answers.
C7_InvalidateAfterWrite ==
  (req.kind \in MutationKinds /\ req.pc = "done" /\ req.wrote) => req.invalidated

\* C8: with requests handled one after the other, an analytics or performance
\* read that answers 200 returns the aggregates of the content table as it is.
C8_SequentialFreshness ==
  (req.kind \in ReadKinds /\ req.pc = "done" /\ req.status = 200)
     => req.result = db[req.user]

\* The totals a trend is computed from, as numbers.
Totals(result) ==
  [contentTrend |-> [c |-> result.periodComparison.current.total.num,
                     p |-> result.periodComparison.previous.total.num],
   reachTrend |-> [c |-> result.periodComparison.current.reach.num,
                   p |-> result.periodComparison.previous.reach.num]]

\* C11: the reported trend (in hundredths), of content count and of reach,
\* is 0 when p = 0 and c = 0, 100 when p = 0 and c > 0, and otherwise
\* (c - p) / p * 100 rounded to two decimals.
C11_TrendPercentage ==
  (calc.fn = "metrics" /\ calc.analytics # NoResult) =>
     \A t \in {"contentTrend", "reachTrend"} :
        LET c == Totals(calc.analytics)[t].c
            p == Totals(calc.analytics)[t].p
            trend == calc.analytics.trends[t]
        IN  /\ (p = 0 /\ c = 0) => trend = 0
            /\ (p = 0 /\ c > 0) => trend = 10000
            /\ p > 0 => trend = MathRound((c - p) * 10000, p)

\* C12: over no rows, getAdvancedAnalytics returns an overview whose total,
\* avgWordCount, avgCharacterCount, avgReach and totalReach are the number 0,
\* and getContentPerformanceScores returns insights.averageScore = 0.
C12_EmptyAggregates ==
  (calc.fn = "metrics" /\ calc.rows = <<>>) =>
     /\ calc.analytics # NoResult =>
          \A f \in {"total", "avgWordCount", "avgCharacterCount", "avgReach", "totalReach"} :
             calc.analytics.overview[f] = JSNumber(0)
     /\ calc.performance # NoResult =>
          calc.performance.insights.averageScore = JSNumber(0)

stores == <<redis, memoryCache, cacheTimestamps>>

\* C13: when a store query of advancedAnalytics or performanceScores fails,
\* the request fails (500) with no payload and writes no cache entry, and the
\* key still misses, so that the next call recomputes; a query that succeeds
\* hands on the aggregates of the content table.
C13_ErrorsPropagate ==
  [][(req.pc = "query" /\ req' # req) =>
       /\ UNCHANGED stores
       /\ \/ req'.pc = "cacheSet" /\ req'.result = db[req.user]
          \/ /\ req'.pc = "done"
             /\ req'.status = 500
             /\ req'.result = req.result
             /\ Lookup(ReadKey(req.kind, req.user))'.isNull]_vars

\* C13's case: a read whose query failed has answered.
C13_Witness ==
  req.kind \in ReadKinds /\ req.pc = "done" /\ req.status = 500 /\ db[req.user] > 0

\* C14: a read asks the cache first; on a hit it answers with the cached
\* payload and runs no query; on a miss it runs the queries, then writes the
\* result under the same key with TTL 1800 s (analytics) or 3600 s
\* (performance), then answers with it.
C14_CacheAside ==
  [][(req.kind \in ReadKinds /\ req' # req /\ Busy) =>
       LET key == ReadKey(req.kind, req.user)
           ttl == IF req.kind = "analytics" THEN 1800 ELSE 3600
       IN /\ db' = db
          /\ req.pc = "cacheGet" =>
               /\ UNCHANGED <<redis>>
               /\ IF Lookup(key).isNull
                  THEN req'.pc = "query"
                  ELSE req' = [Respond(req, 200) EXCEPT !.result = Lookup(key).val]
          /\ req'.pc = "query" => req.pc = "cacheGet"
          /\ req'.pc = "cacheSet" => req.pc = "query"
          /\ req.pc = "cacheSet" =>
               /\ req' = Respond(req, 200)
               /\ ret'.op = "set" /\ ret'.key = key
               /\ (UseRedis /\ redisUp) =>
                    redis' = MapPut(redis, key, [json |-> JSONStringify(req.result),
                                                 exp |-> NowSec + ttl])
               /\ (~UseRedis /\ memInit) =>
                    memoryCache' = MapPut(memoryCache, key, req.result)]_vars

\* C14's case: an analytics read that missed has written its result to Redis
\* and answered.
C14_Witness ==
  /\ req.kind = "analytics" /\ req.pc = "done" /\ req.status = 200
  /\ ret.op = "set" /\ ret.routed = "redis"
  /\ AnalyticsKey(req.user) \in DOMAIN redis

\* Two helper calls have the same arguments: the same values, dates taken by
\* the instant they denote.
SameArguments(x, y) ==
  /\ x.ns = y.ns
  /\ CASE x.ns = "analytics" ->
            /\ x.args.userId = y.args.userId
            /\ x.args.startDate.time = y.args.startDate.time
            /\ x.args.endDate.time = y.args.endDate.time
       [] OTHER -> x.args = y.args

\* C15: a getter and a setter (or two getters) of one namespace called with
\* the same arguments derive the same key, whichever Date objects denote the
\* instants; every key is its namespace, ':' and the digest; calls with
\* different arguments or of different namespaces derive different keys.
C15_KeyDerivation ==
  (calc.fn = "keys" /\ calc.keyA # NoKey /\ calc.keyB # NoKey) =>
     /\ SubSeq(calc.keyA, 1, Len(PrefixChars(calc.a.ns)) + 1)
           = PrefixChars(calc.a.ns) \o <<":">>
     /\ SubSeq(calc.keyB, 1, Len(PrefixChars(calc.b.ns)) + 1)
           = PrefixChars(calc.b.ns) \o <<":">>
     /\ Len(calc.keyA) = Len(PrefixChars(calc.a.ns)) + 33
     /\ SameArguments(calc.a, calc.b) <=> calc.keyA = calc.keyB

\* C15's case: getCachedAnalytics and setCachedAnalytics were given different
\* Date objects for the same range, and derived their keys.
C15_Witness ==
  /\ calc.fn = "keys" /\ calc.keyA # NoKey /\ calc.keyB # NoKey
  /\ calc.a.ns = "analytics" /\ calc.b.ns = "analytics" /\ calc.b.helper = "set"
  /\ calc.a.args.startDate.obj # calc.b.args.startDate.obj
  /\ SameArguments(calc.a, calc.b)

\* C16: every call of calculateEngagementMetrics returns a potentialReach that
\* is an integer of at least 50, which is not 0, so the division by it is
\* defined, and an engagementScore that is an integer within 0..100.
C16_ScoreRanges ==
  calc.fn = "score" =>
    \A j \in 1..Len(calc.calls) :
       LET m == calc.calls[j].metrics
       IN  /\ m.potentialReach \in Nat
           /\ m.potentialReach >= 50
           /\ m.potentialReach # 0
           /\ m.engagementScore \in 0..100

\* C16's case: the item with the smallest reach (a long social caption for
\* LinkedIn with no quality factor) has been scored.
C16_Witness ==
  /\ calc.fn = "score" /\ Len(calc.calls) > 0
  /\ calc.calls[1].target = "item"
  /\ calc.item.contentType = "social_caption" /\ calc.item.platformTarget = "LinkedIn"
  /\ calc.item.characterCount > 280 /\ calc.item.generatedText = <<>>
  /\ calc.calls[1].metrics.potentialReach = 62

\* C18: a call of calculateEngagementMetrics leaves the item and all other
\* state as they were, and all calls on one item, whatever calls came in
\* between, returned identical metrics (five numbers, five booleans).
C18_ScoringDeterminism ==
  [][calc.fn = "score" =>
       /\ calc'.item = calc.item /\ calc'.other = calc.other
       /\ UNCHANGED <<gatewayVars, db, req>>
       /\ \A j, k \in 1..Len(calc'.calls) :
            calc'.calls[j].target = calc'.calls[k].target
              => calc'.calls[j].metrics = calc'.calls[k].metrics]_vars

\* C18's case: an item with a hashtag, a question, a call to action and an
\* emoji was scored, then another item, then the first one again.
C18_Witness ==
  /\ calc.fn = "score" /\ Len(calc.calls) = 3
  /\ calc.calls[1].target = "item" /\ calc.calls[2].target = "other"
  /\ calc.calls[3].target = "item"
  /\ calc.calls[3].metrics.qualityFactors.hasHashtags
  /\ calc.calls[3].metrics.qualityFactors.hasQuestions
  /\ calc.calls[3].metrics.qualityFactors.hasCallToAction
  /\ calc.calls[3].metrics.qualityFactors.hasEmojis

\* C19: invalidateUserCache is called only after the content write has
\* completed, and a request of a handler that calls it, once its write has
\* committed, does not answer (with success or an error) before
\* invalidateUserCache has returned.
C19_WriteThenClear ==
  /\ (req.kind \in MutationKinds /\ Invalidating) => req.wrote
  /\ (Invalidates(req.kind) /\ req.pc = "done" /\ req.wrote) => req.invalidated

\* C20: a get, set, del or clear is sent to Redis exactly when isConnected
\* and client hold as it starts, and otherwise works on the fallback maps;
\* no call touches both stores.
C20_Routing ==
  [][(ret' # ret /\ ret'.op \in DataOps) =>
       /\ ~ret.pending =>
            (ret'.routed = "redis" <=> (isConnected /\ client # "null"))
       /\ ret.pending => ret'.routed = "redis"
       /\ ret'.routed = "redis" => UNCHANGED <<memoryCache, cacheTimestamps>>
       /\ ret'.routed # "redis" => (ret'.routed = "memory" /\ UNCHANGED redis)
       /\ (ret'.op = "set" /\ ~ret'.raised) =>
            IF isConnected /\ client # "null"
            THEN ret'.key \in DOMAIN redis'
            ELSE memInit => ret'.key \in DOMAIN memoryCache']_vars

\* C20's case: a set went to Redis while the fallback maps exist and hold
\* nothing under the key.
C20_Witness ==
  /\ ret.op = "set" /\ ret.routed = "redis" /\ ~ret.raised
  /\ isConnected /\ memInit /\ ret.key \notin DOMAIN memoryCache

\* connect() comes back from its await through the catch block.
ConnectFails == connectPc = "pending" /\ connectPc' = "failed"

\* A get, set, del or clear is called after connect() failed.
CallAfterFailure == connectPc = "failed" /\ ret' # ret /\ ret'.op \in DataOps /\ ~ret.pending

Swept == memInit /\ nextSweep' # nextSweep

\* C22: a sweep removes the entries older than 1 hour, whatever TTL they
\* were written with and whether or not they were read, and no others; so
\* the fallback store never holds an entry older than 1 hour plus one sweep
\* interval.
C22_BoundedRetention ==
  /\ [](\A k \in DOMAIN cacheTimestamps \cup DOMAIN memoryCache :
          /\ k \in DOMAIN cacheTimestamps
          /\ NowMs - cacheTimestamps[k] <= SWEEP_MAX_AGE_MS + SWEEP_INTERVAL_MS)
  /\ [][Swept =>
          /\ nextSweep' * SWEEP_INTERVAL_MS = nextSweep * SWEEP_INTERVAL_MS + 300000
          /\ \A k \in DOMAIN memoryCache :
                /\ k \in DOMAIN memoryCache' <=> ~(NowMs - cacheTimestamps[k] > 3600000)
                /\ k \in DOMAIN memoryCache' => memoryCache'[k] = memoryCache[k]
          /\ DOMAIN memoryCache' \subseteq DOMAIN memoryCache]_vars

\* C22's case: an entry written to the fallback store at time 0 and never
\* read (the set is the latest call) was removed by the sweep 65 minutes
\* later, having survived the sweep at 60 minutes.
C22_Witness ==
  /\ memInit /\ ret.op = "set" /\ ret.routed = "memory"
  /\ now = 13 /\ nextSweep = 14
  /\ ret.key \notin DOMAIN memoryCache

\* C30: once the fallback store is initialised, whatever sets, gets, dels,
\* clears and sweeps have run, the value map and the timestamp map have the
\* same keys.
C30_SameKeys == memInit => DOMAIN memoryCache = DOMAIN cacheTimestamps

\* C30's case: a get found an entry of the fallback store one hour old and
\* evicted it (the sweep, which removes entries older than that, had not).
C30_Witness ==
  /\ memInit /\ now = 12
  /\ ret.op = "get" /\ ret.routed = "memory" /\ ret.isNull
  /\ ret.exp.state # "none" /\ ret.exp.routed = "memory"
  /\ ret.key \notin DOMAIN memoryCache

CollectedScores == [j \in 1..Len(calc.calls) |-> calc.calls[j].metrics.engagementScore]

IsBestGroup(reported, keys, scores) ==
  LET members(g) == {i \in 1..Len(keys) : keys[i] = g}
      total(g) == reduce(SelectSeq([i \in 1..Len(keys) |-> IF keys[i] = g THEN scores[i] ELSE 0],
                                   LAMBDA x : TRUE))
      size(g) == Cardinality(members(g))
      first(g) == CHOOSE i \in members(g) : \A j \in members(g) : i <= j
      groups == {keys[i] : i \in 1..Len(keys)} \ {"none"}
  IN  /\ reported = "null" <=> groups = {}
      /\ reported # "null" =>
            /\ reported \in groups
            /\ \A h \in groups \ {reported} :
                  \/ total(reported) * size(h) > total(h) * size(reported)
                  \/ /\ total(reported) * size(h) = total(h) * size(reported)
                     /\ first(reported) < first(h)

\* C24: bestPerformingType is the contentType group with the highest mean
\* score and bestPerformingPlatform the platformTarget group with the
\* highest mean score, items without a platform being left out; on equal
\* means the group met first wins; null exactly when there is no group.
C24_BestGroup ==
  (calc.fn = "metrics" /\ calc.performance # NoResult) =>
     LET scores == calc.performance.contentScores
         insights == calc.performance.insights
     IN  /\ IsBestGroup(insights.bestPerformingType.type,
                        [i \in 1..Len(calc.rows) |-> calc.rows[i].item.contentType], scores)
         /\ IsBestGroup(insights.bestPerformingPlatform.platform,
                        [i \in 1..Len(calc.rows) |-> calc.rows[i].item.platformTarget], scores)

\* C24's case: items scoring 4 (type other, Twitter), 5 (social_caption,
\* Instagram) and 3 (social_caption, no platform): the two types have the
\* mean 4 and the one met first is reported; the platforms are Twitter and
\* Instagram only.
C24_Witness ==
  /\ calc.fn = "metrics" /\ calc.performance # NoResult
  /\ calc.performance.contentScores = <<4, 5, 3>>
  /\ calc.rows[3].item.platformTarget = "none"
  /\ calc.performance.insights.bestPerformingType.type = "other"
  /\ calc.performance.insights.bestPerformingPlatform.platform = "Instagram"

RECURSIVE Counts(_)
\* The sum of the counts of a query's result rows.
Counts(result) == IF result = <<>> THEN 0 ELSE Head(result).count + Counts(Tail(result))

\* The counts of a finished call are those of the rows of a table: the
\* current period holds exactly the user's rows with start <= createdAt <
\* end, the previous period exactly those with start - (end - start) <=
\* createdAt < start.
CountsOf(table) ==
  /\ calc.total = Cardinality({r \in table : /\ r.userId = calc.userId
                                             /\ calc.startDate <= r.createdAt
                                             /\ r.createdAt < calc.endDate})
  /\ calc.previousTotal =
       Cardinality({r \in table : /\ r.userId = calc.userId
                                  /\ 2 * calc.startDate - calc.endDate <= r.createdAt
                                  /\ r.createdAt < calc.startDate})

\* The total is the sum of the group counts and of the daily counts, and
\* the days ascend.
Consistent ==
  /\ calc.total = Counts(calc.contentByType)
  /\ calc.total = Counts(calc.dailyTrends)
  /\ \A i, j \in 1..Len(calc.dailyTrends) :
        i < j => calc.dailyTrends[i].date < calc.dailyTrends[j].date

\* C25: a finished call counted exactly the user's rows of the current
\* period and of the previous one, as the table held them at some moment of
\* the call (a row at start is current only, a row at end is in neither, no
\* row is in both, no row of another user counts), its total is the sum of
\* its group counts and of its dailyTrends counts, and dailyTrends ascends
\* by date.
C25_AnalyticsRanges ==
  (calc.fn = "ranges" /\ calc.pc = "done")
     => ((\E table \in calc.tables : CountsOf(table)) /\ Consistent)

\* C25 for a call during which no write to the content table committed.
C25_WithoutConcurrentWrite ==
  (calc.fn = "ranges" /\ calc.pc = "done" /\ ~calc.written)
     => (CountsOf(calc.table) /\ Consistent)

\* C26: every stored content row has potentialReachMetric >= 50, whatever
\* content operations were served.
C26_StoredReachFloor ==
  calc.fn = "content" =>
    \A id \in ContentIds : calc.rows[id] # NoRow => calc.rows[id].potentialReachMetric >= 50

\* A row with the least reach the scoring gives (a long plain LinkedIn
\* caption, 62), stored by recalculate after the row, inserted with another
\* reach, was rewritten and posted.
C26_Witness ==
  /\ calc.fn = "content"
  /\ calc.rows[1] # NoRow
  /\ calc.rows[1].status = "posted_simulated"
  /\ calc.rows[1].potentialReachMetric = 62
  /\ StoredReach(MetricsOf(ItemOf(calc.rows[1]))) = 62

\* The day's usage after the generations so far: at most
\* maxGenerationsPerDay content rows, one usage row at most, and its count
\* the number of generations tracked.
LimitKept ==
  /\ calc.inserted <= maxGenerationsPerDay
  /\ Len(calc.usage) <= 1
  /\ \A todayUsage \in TodayUsage(calc.usage) :
        todayUsage.contentGenerationsCount = calc.tracked

\* C28: however the POST /generate requests of a user interleave, no more
\* than maxGenerationsPerDay of them pass the gate and insert a content row,
\* the day's contentGenerationsCount is the number of them whose
\* trackContentGeneration completed, and the user has one usage row for the
\* day at most.
C28_DailyLimit == calc.fn = "limit" => LimitKept

\* C28 for requests served one after another.
C28_OneAtATime == (calc.fn = "limit" /\ ~calc.overlapped) => LimitKept

\* C27: when an analytics read queried the store before a mutation's write,
\* and its cache write landed after the mutation's invalidateUserCache had
\* finished, then with both requests completed the cache holds no analytics
\* entry of the user computed from the rows before the mutation.
C27_ConcurrentFreshness ==
  (/\ calc.fn = "reader" /\ calc.pc = "done" /\ calc.storedAfterInvalidate
   /\ req.pc = "done" /\ req.wrote /\ req.invalidated /\ req.user = calc.user)
     => (\/ Lookup(AnalyticsKey(calc.user)).isNull
         \/ Lookup(AnalyticsKey(calc.user)).val = db[calc.user])

\* C9: no CacheService call throws; when the backend raises, get returns
\* null and set, del, clear and disconnect leave both stores as they were.
C9_NeverThrows ==
  [][ret' # ret =>
       /\ ~ret'.threw
       /\ ret'.raised =>
            /\ ret'.isNull
            /\ UNCHANGED <<redis, memoryCache, cacheTimestamps>>]_vars

\* C9's case: Redis raised during a get, which returned null.
C9_Witness == ret.op = "get" /\ ret.raised /\ ret.isNull /\ ~ret.threw

\* The spec's ConnectionState, read off the gateway's fields.
ConnState ==
  IF connectPc = "idle" THEN "DISCONNECTED"
  ELSE IF client = "null" THEN "FAILED_PERMANENT"
  ELSE IF isConnected THEN "CONNECTED"
  ELSE IF connectPc = "pending" /\ sock = "connecting" /\ retryAttempts = 0
       THEN "CONNECTING"
  ELSE "DISCONNECTED"

ListedTransitions ==
  {<<"DISCONNECTED", "CONNECTING">>, <<"CONNECTING", "CONNECTED">>,
   <<"CONNECTING", "DISCONNECTED">>, <<"CONNECTED", "DISCONNECTED">>,
   <<"DISCONNECTED", "FAILED_PERMANENT">>}

\* C10 as stated: the state moves only along the listed transitions, the
\* gateway never comes back to CONNECTED from DISCONNECTED or from
\* FAILED_PERMANENT, and the retry counter never exceeds 3 nor decreases.
C10_ListedTransitionsOnly ==
  [][/\ ConnState' # ConnState => <<ConnState, ConnState'>> \in ListedTransitions
     /\ retryAttempts' >= retryAttempts
     /\ retryAttempts' <= maxRetries]_vars

\* C10 amended: besides the listed transitions the gateway comes back to
\* CONNECTED from DISCONNECTED when the client library reconnects; the
\* 'connect' event resets the retry counter to 0, which otherwise grows by
\* at most one per error and never exceeds 3; FAILED_PERMANENT is entered
\* from DISCONNECTED with the counter at 3, and is never left.
C10_Transitions ==
  [][/\ ConnState' # ConnState =>
          <<ConnState, ConnState'>> \in
             ListedTransitions \cup {<<"DISCONNECTED", "CONNECTED">>}
     /\ (ConnState' = "CONNECTING" /\ ConnState # "CONNECTING") => connectPc = "idle"
     /\ (ConnState' = "FAILED_PERMANENT" /\ ConnState # "FAILED_PERMANENT")
           => retryAttempts' = maxRetries
     /\ retryAttempts' \in {retryAttempts, retryAttempts + 1, 0}
     /\ retryAttempts' < retryAttempts => (isConnected' /\ sock' = "connected")
     /\ retryAttempts' <= maxRetries]_vars

\* C10's case: connect() failed, and a later event brought the gateway back
\* to CONNECTED.
C10_Witness == ConnState = "CONNECTED" /\ connectPc = "failed"

====
